---- MODULE Spec2Model ----
(***************************************************************************)
(* State-machine model of @robtimus/concurrent: ConcurrentMap,             *)
(* ReadWriteLock, Semaphore and CountDownLatch.  Every synchronous call of *)
(* the library is one atomic action (the runtime is single-threaded,       *)
(* run-to-completion); promise reactions, timers and user functions are    *)
(* separate actions.                                                       *)
(***************************************************************************)
EXTENDS Integers, Sequences, FiniteSets, TLC

\* ---------------------------------------------------------------- bounds
NumKeys == 2
MaxVal == 2
MaxOps == 3
MaxObsOps == 2
MaxLocks == 4
MaxFairLocks == 3
MaxPermits == 3
MaxAvailable == 5
MaxAcquirers == 3
MaxFollowed == 2
MaxCount == 2
MaxWaiters == 3
MaxIncrements == 4

Keys == 1..NumKeys
Values == 1..MaxVal
\* `undefined`: the absent value of Map.get
Undef == 0
\* outcome of a user function that throws or returns a rejected promise
Fail == -1
\* user functions handed to compute / computeIfAbsent / computeIfPresent / merge
FnKinds == {"val", "none", "fail"}

VARIABLES
  current,    \* ConcurrentMap.#current : key -> value, Undef when there is no entry
  pending,    \* ConcurrentMap.#pending : function whose DOMAIN is the keys present
  running,    \* compute-family actions started and not yet past their finally()
  nextOp,     \* number of the next submitted map operation
  settled,    \* promises settled by the latest step
  finished,   \* <<r>> when the latest step was the finally() reaction of action r
  observed,   \* <<call and result>> when the latest step was a snapshot observer
  opLimit,    \* how many map operations the application submits
  fair,        \* ReadWriteLock.#fair
  counts,      \* ReadWriteLock.#counts : [read, write]
  lockWaiting, \* ReadWriteLock.#waiting : sequence of [id, type, timed]
  handles,     \* ReadLockImpl / WriteLockImpl objects: id -> [type, held]
  lockTimers,  \* ids of the waiting acquisitions whose setTimeout() is scheduled
  lockLast,    \* the latest call on the lock and its outcome
  idLimit,     \* how many handles and waiting acquisitions the application keeps at once
  permits,     \* Semaphore.#permits
  semWaiting,  \* Semaphore.#waiting : sequence of [id, permitsNeeded, timed]
  semTimers,   \* ids of the waiting acquirers whose setTimeout() is scheduled
  semNext,     \* id of the next acquirer that has to wait
  semPromises, \* promises of the acquirers that had to wait: id -> state
  semFollowed, \* whether the application keeps those promises
  semLimit,    \* how many acquirers the application lets wait
  semLast,     \* the latest call on the semaphore and its outcome
  latchInitial,  \* CountDownLatch.#initialCount
  latchCount,    \* CountDownLatch.#count
  latchWaiting,  \* CountDownLatch.#waiting : sequence of [id, timed]
  latchTimers,   \* ids of the waiting awaits whose setTimeout() is scheduled
  latchPromises, \* promises of the awaits that had to wait: id -> state
  latchNext,     \* id of the next await that has to wait
  latchLast      \* the latest call on the latch and its outcome

mapVars == <<current, pending, running, nextOp, settled, finished, observed, opLimit>>
lockVars == <<fair, counts, lockWaiting, handles, lockTimers, lockLast, idLimit>>
semVars ==
  <<permits, semWaiting, semTimers, semNext, semPromises, semFollowed, semLimit, semLast>>
latchVars ==
  <<latchInitial, latchCount, latchWaiting, latchTimers, latchPromises, latchNext, latchLast>>
vars == <<current, pending, running, nextOp, settled, finished, observed, opLimit,
          fair, counts, lockWaiting, handles, lockTimers, lockLast, idLimit,
          permits, semWaiting, semTimers, semNext, semPromises, semFollowed, semLimit,
          semLast,
          latchInitial, latchCount, latchWaiting, latchTimers, latchPromises, latchNext,
          latchLast>>

\* ------------------------------------------------------ ConcurrentMap
\* A continuation pushed on a #pending queue (or the operation being submitted).
Cont(id, op, key, a, b, fn) ==
  [id |-> id, op |-> op, key |-> key, a |-> a, b |-> b, fn |-> fn]

ComputeOps == {"compute", "computeIfAbsent", "computeIfPresent", "merge"}

mapState ==
  [current |-> current, pending |-> pending, running |-> running, settled |-> {},
   finished |-> <<>>]

removePending(p, key) == [x \in (DOMAIN p) \ {key} |-> p[x]]

putPending(p, key, q) == [x \in (DOMAIN p) \cup {key} |-> IF x = key THEN q ELSE p[x]]

\* the queue of key k, empty when #pending has no array for k
queueOf(p, k) == IF k \in DOMAIN p THEN p[k] ELSE <<>>

\* a promise of operation c is settled: ok = resolved with val, ~ok = rejected
settle(m, c, val, ok) ==
  [m EXCEPT !.settled = @ \cup {[id |-> c.id, op |-> c.op, key |-> c.key, val |-> val, ok |-> ok]}]

\* The closure fn handed to #result by set, delete, getLatest, setIfAbsent,
\* setIfPresent and replace: <<new value of the key, value the promise gets>>.
\* Booleans are reported as 1 (true) and 0 (false).
direct(c, old) ==
  CASE c.op = "getLatest"    -> <<old, old>>
    [] c.op = "set"          -> <<c.a, old>>
    [] c.op = "delete"       -> <<Undef, old>>
    [] c.op = "deleteValue"  -> IF c.a = old THEN <<Undef, 1>> ELSE <<old, 0>>
    [] c.op = "setIfAbsent"  -> <<IF old = Undef THEN c.a ELSE old, old>>
    [] c.op = "setIfPresent" -> <<IF old # Undef THEN c.a ELSE old, old>>
    [] c.op = "replace"      -> IF c.a = old THEN <<c.b, 1>> ELSE <<old, 0>>
    [] c.op = "clearStep"    -> <<Undef, Undef>>

\* resolve(fn()) of #result, or the body of the step clear() appends
runDirect(m, c) ==
  LET r == direct(c, m.current[c.key])
      m1 == [m EXCEPT !.current[c.key] = r[1]]
  IN  IF c.op = "clearStep"
        THEN \* Promise.all: clear() resolves when its last appended step has run
             IF \E k \in DOMAIN m1.pending :
                  \E i \in 1..Len(m1.pending[k]) : m1.pending[k][i].id = c.id
               THEN m1
               ELSE settle(m1, [c EXCEPT !.op = "clear"], Undef, TRUE)
        ELSE settle(m1, c, r[2], TRUE)

\* #compute / #computeWhenAbsent / #computeWhenPresent / #merge: the old value is
\* read now, the user function and its reactions run later
startCompute(m, c) ==
  [m EXCEPT !.running = @ \cup
     {[id |-> c.id, op |-> c.op, key |-> c.key, old |-> m.current[c.key],
       a |-> c.a, fn |-> c.fn, phase |-> "run"]}]

\* whether a compute-family operation finishes without calling the user function
skipsFn(op, old) ==
  \/ op = "computeIfAbsent" /\ old # Undef
  \/ op = "computeIfPresent" /\ old = Undef
  \/ op = "merge" /\ old = Undef

\* what it does then: <<new value of the key, value the promise gets>>
skipResult(c, old) ==
  IF c.op = "merge" THEN <<c.a, c.a>> ELSE <<old, old>>

RECURSIVE triggerNextPending(_, _)
RECURSIVE runContinuation(_, _)

\* a continuation taken from a #pending queue is invoked
runContinuation(m, c) ==
  IF c.op \in ComputeOps
    THEN IF skipsFn(c.op, m.current[c.key])
           THEN LET r == skipResult(c, m.current[c.key])
                IN  triggerNextPending(
                      settle([m EXCEPT !.current[c.key] = r[1]], c, r[2], TRUE), c.key)
           ELSE startCompute(m, c)
    ELSE triggerNextPending(runDirect(m, c), c.key)

\* #triggerNextPending: `pending` is the array found at entry; the nested call can
\* only shorten it or remove it from the map, so its length afterwards is the
\* length of the key's queue, or 0 when the key is gone
triggerNextPending(m, key) ==
  IF key \notin DOMAIN m.pending
    THEN m
    ELSE LET q == m.pending[key]
             m1 == IF q = <<>>
                     THEN m
                     ELSE runContinuation([m EXCEPT !.pending[key] = Tail(q)], Head(q))
         IN  IF key \in DOMAIN m1.pending /\ m1.pending[key] = <<>>
               THEN [m1 EXCEPT !.pending = removePending(@, key)]
               ELSE m1

RECURSIVE triggerDepth(_, _)
RECURSIVE continuationDepth(_, _)

\* how many calls of #triggerNextPending are on the stack, at most, under the
\* invocation of continuation c: none when c starts a user function (#compute
\* returns once its promise chain is set up), else those of the call that c
\* makes itself after it has run
continuationDepth(m, c) ==
  IF c.op \in ComputeOps
    THEN IF skipsFn(c.op, m.current[c.key])
           THEN LET r == skipResult(c, m.current[c.key])
                IN  triggerDepth(settle([m EXCEPT !.current[c.key] = r[1]], c, r[2], TRUE),
                                 c.key)
           ELSE 0
    ELSE triggerDepth(runDirect(m, c), c.key)

\* how many calls of #triggerNextPending are on the stack, at most, during the
\* call #triggerNextPending(key) made in state m, that call included
triggerDepth(m, key) ==
  IF key \notin DOMAIN m.pending \/ m.pending[key] = <<>>
    THEN 1
    ELSE 1 + continuationDepth([m EXCEPT !.pending[key] = Tail(@)], Head(m.pending[key]))

\* the value-returning user functions of the model: computeIfAbsent yields the
\* key, compute and computeIfPresent yield old + 1, merge yields old + new
applyFn(r) ==
  CASE r.fn = "fail" -> Fail
    [] r.fn = "none" -> Undef
    [] r.fn = "val"  -> CASE r.op = "computeIfAbsent" -> r.key
                          [] r.op = "merge" -> r.old + r.a
                          [] OTHER -> r.old + 1

install(m) ==
  /\ UNCHANGED lockVars
  /\ UNCHANGED semVars
  /\ UNCHANGED latchVars
  /\ UNCHANGED opLimit
  /\ observed' = <<>>
  /\ current' = m.current
  /\ pending' = m.pending
  /\ running' = m.running
  /\ settled' = m.settled
  /\ finished' = m.finished

\* set, delete, getLatest, setIfAbsent, setIfPresent, replace: #result
result(c) ==
  /\ nextOp <= opLimit
  /\ nextOp' = nextOp + 1
  /\ IF c.key \notin DOMAIN pending
       THEN install(runDirect(mapState, c))
       ELSE install([mapState EXCEPT !.pending[c.key] = Append(@, c)])

\* faulty variant: one queue for the whole map, an operation waits while any key
\* has an action
submitComputeBehindAnyKey(c) ==
  /\ nextOp <= opLimit
  /\ nextOp' = nextOp + 1
  /\ IF DOMAIN pending = {}
       THEN IF skipsFn(c.op, current[c.key])
              THEN LET r == skipResult(c, current[c.key])
                   IN  install(settle([mapState EXCEPT !.current[c.key] = r[1]], c, r[2], TRUE))
              ELSE install(startCompute(
                     [mapState EXCEPT !.pending = putPending(@, c.key, <<>>)], c))
       ELSE install([mapState EXCEPT
                       !.pending = putPending(@, c.key, Append(queueOf(pending, c.key), c))])

\* compute, computeIfAbsent, computeIfPresent, merge
submitCompute(c) ==
  /\ nextOp <= opLimit
  /\ nextOp' = nextOp + 1
  /\ IF c.key \notin DOMAIN pending
       THEN IF skipsFn(c.op, current[c.key])
              THEN LET r == skipResult(c, current[c.key])
                   IN  install(settle([mapState EXCEPT !.current[c.key] = r[1]], c, r[2], TRUE))
              ELSE install(startCompute(
                     [mapState EXCEPT !.pending = putPending(@, c.key, <<>>)], c))
       ELSE install([mapState EXCEPT !.pending[c.key] = Append(@, c)])

Set(k, v) == result(Cont(nextOp, "set", k, v, 0, ""))

Delete(k) == result(Cont(nextOp, "delete", k, 0, 0, ""))

DeleteValue(k, v) == result(Cont(nextOp, "deleteValue", k, v, 0, ""))

GetLatest(k) == result(Cont(nextOp, "getLatest", k, 0, 0, ""))

SetIfAbsent(k, v) == result(Cont(nextOp, "setIfAbsent", k, v, 0, ""))

SetIfPresent(k, v) == result(Cont(nextOp, "setIfPresent", k, v, 0, ""))

Replace(k, v, w) == result(Cont(nextOp, "replace", k, v, w, ""))

Compute(k, fn) == submitCompute(Cont(nextOp, "compute", k, 0, 0, fn))

ComputeIfAbsent(k, fn) == submitCompute(Cont(nextOp, "computeIfAbsent", k, 0, 0, fn))

ComputeIfPresent(k, fn) == submitCompute(Cont(nextOp, "computeIfPresent", k, 0, 0, fn))

Merge(k, v, fn) == submitCompute(Cont(nextOp, "merge", k, v, 0, fn))

\* clear(): idle keys lose their entry now, every key of #pending gets a step
Clear ==
  /\ nextOp <= opLimit
  /\ nextOp' = nextOp + 1
  /\ current' = [k \in Keys |-> IF k \in DOMAIN pending THEN current[k] ELSE Undef]
  /\ pending' = [k \in DOMAIN pending |->
                   Append(pending[k], Cont(nextOp, "clearStep", k, 0, 0, ""))]
  /\ settled' = IF DOMAIN pending = {}
                  THEN {[id |-> nextOp, op |-> "clear", key |-> 0, val |-> Undef, ok |-> TRUE]}
                  ELSE {}
  /\ finished' = <<>>
  /\ observed' = <<>>
  /\ UNCHANGED opLimit
  /\ UNCHANGED running
  /\ UNCHANGED lockVars
  /\ UNCHANGED semVars
  /\ UNCHANGED latchVars

\* the user function of a running action has produced its outcome: the
\* .then() reaction stores it and resolves, or .catch() rejects
Complete(r) ==
  /\ r \in running
  /\ r.phase = "run"
  /\ LET v == applyFn(r)
         m == [mapState EXCEPT !.running = (@ \ {r}) \cup {[r EXCEPT !.phase = "fin"]}]
     IN  IF v = Fail
           THEN install(settle(m, r, Fail, FALSE))
           ELSE IF r.op = "computeIfAbsent" /\ v = Undef
                  THEN install(settle(m, r, v, TRUE))
                  ELSE install(settle([m EXCEPT !.current[r.key] = v], r, v, TRUE))
  /\ UNCHANGED nextOp

\* faulty variant: the next continuation is triggered from .then() only, so a
\* failed action does not trigger it
FinallyOnSuccessOnly(r) ==
  /\ r \in running
  /\ r.phase = "fin"
  /\ LET m == [mapState EXCEPT !.running = @ \ {r}, !.finished = <<r>>]
     IN  IF applyFn(r) = Fail THEN install(m) ELSE install(triggerNextPending(m, r.key))
  /\ UNCHANGED nextOp

\* .finally(() => this.#triggerNextPending(key))
Finally(r) ==
  /\ r \in running
  /\ r.phase = "fin"
  /\ install(triggerNextPending([mapState EXCEPT !.running = @ \ {r}, !.finished = <<r>>],
                                r.key))
  /\ UNCHANGED nextOp

\* size, get, has, keys(), values(), entries() / [Symbol.iterator] / forEach: each
\* reads #current only
size == Cardinality({k \in Keys : current[k] # Undef})

\* faulty variant: get() reports what the action in flight on the key will store
getAwaitingPending(k) ==
  LET rs == {r \in running : r.key = k /\ r.phase = "run"}
  IN  IF rs = {} THEN current[k] ELSE applyFn(CHOOSE r \in rs : TRUE)

get(k) == current[k]

has(k) == current[k] # Undef

mapKeys == {k \in Keys : current[k] # Undef}

mapValues == {current[k] : k \in mapKeys}

entries == {<<k, current[k]>> : k \in mapKeys}

Observers == {"size", "get", "has", "keys", "values", "entries"}

\* what observer o reports (for key k, when it takes one)
report(o, k) ==
  CASE o = "size"    -> size
    [] o = "get"     -> get(k)
    [] o = "has"     -> has(k)
    [] o = "keys"    -> mapKeys
    [] o = "values"  -> mapValues
    [] o = "entries" -> entries

\* a call of a snapshot observer; the key is 0 for the observers that take none
Observe(o, k) ==
  /\ (k = 0) = (o \notin {"get", "has"})
  /\ observed' = <<[op |-> o, key |-> k, val |-> report(o, k)]>>
  /\ UNCHANGED <<current, pending, running, nextOp, settled, finished, opLimit>>
  /\ UNCHANGED lockVars
  /\ UNCHANGED semVars
  /\ UNCHANGED latchVars

\* ------------------------------------------------------ ReadWriteLock
Ids == 1..MaxLocks
\* timeout === undefined
None == <<>>
\* the timeout arguments tried: undefined, 0 and 50 ms
Timeouts == {None, <<0>>, <<50>>}

lockState ==
  [counts |-> counts, waiting |-> lockWaiting, handles |-> handles, timers |-> lockTimers]

\* ids of the handles the application still refers to and of the waiting acquisitions
usedIds == (DOMAIN handles) \cup {lockWaiting[i].id : i \in 1..Len(lockWaiting)}

freeIds == (1..idLimit) \ usedIds

freshId == CHOOSE i \in freeIds : \A j \in freeIds : i <= j

putHandle(h, id, type) ==
  [x \in (DOMAIN h) \cup {id} |-> IF x = id THEN [type |-> type, held |-> TRUE] ELSE h[x]]

\* #newReadLock / #newWriteLock: a handle object with #held = true
newLock(L, id, type) == [L EXCEPT !.handles = putHandle(@, id, type)]

\* faulty variant: the callback of a timed acquisition leaves its timer scheduled
callbackKeepingTimer(L, w) == newLock(L, w.id, w.type)

\* lock.callback() of a waiting acquisition: clearTimeout(timer), resolve(lockFactory())
callback(L, w) == newLock([L EXCEPT !.timers = @ \ {w.id}], w.id, w.type)

RECURSIVE activateUntilWrite(_)
\* #activateReadLocks, fair: only the read locks before the first write lock
activateUntilWrite(L) ==
  IF L.waiting # <<>> /\ Head(L.waiting).type = "read"
    THEN activateUntilWrite(
           callback([L EXCEPT !.counts.read = @ + 1, !.waiting = Tail(@)], Head(L.waiting)))
    ELSE L

RECURSIVE activateAllReads(_, _)
\* #activateReadLocks, non-fair: the loop over the old array `waiting`
activateAllReads(L, old) ==
  IF old = <<>>
    THEN L
    ELSE IF Head(old).type = "read"
           THEN activateAllReads(callback([L EXCEPT !.counts.read = @ + 1], Head(old)), Tail(old))
           ELSE activateAllReads([L EXCEPT !.waiting = Append(@, Head(old))], Tail(old))

\* faulty variant: the fairness option is ignored, every waiting read is activated
activateReadLocksAnywhere(L) ==
  activateAllReads([L EXCEPT !.waiting = <<>>], L.waiting)

\* faulty variant: the fairness option is ignored, only the reads at the head
activateReadLocksAtHead(L) ==
  activateUntilWrite(L)

activateReadLocks(L) ==
  IF fair
    THEN activateUntilWrite(L)
    ELSE activateAllReads([L EXCEPT !.waiting = <<>>], L.waiting)

activateLocks(L) ==
  IF L.waiting = <<>>
    THEN L
    ELSE LET lock == Head(L.waiting)
             L1 == callback([L EXCEPT !.waiting = Tail(@), !.counts[lock.type] = @ + 1], lock)
         IN  IF lock.type = "read" THEN activateReadLocks(L1) ELSE L1

releaseReadLock(L) ==
  LET L1 == [L EXCEPT !.counts.read = @ - 1]
  IN  IF L1.counts.read = 0 THEN activateLocks(L1) ELSE L1

\* faulty variant: the release of the write lock wakes nobody
releaseWriteLockWithoutWake(L) == [L EXCEPT !.counts.write = @ - 1]

releaseWriteLock(L) ==
  LET L1 == [L EXCEPT !.counts.write = @ - 1]
  IN  IF L1.counts.write = 0 THEN activateLocks(L1) ELSE L1

\* #acquireLock: <<new state, outcome of the call>>
acquireLock(L, type, timeout, id) ==
  IF timeout = None
    THEN <<[L EXCEPT !.waiting = Append(@, [id |-> id, type |-> type, timed |-> FALSE])],
           "queued">>
    ELSE IF timeout[1] <= 0
           THEN <<L, "rejected">>
           ELSE <<[L EXCEPT !.waiting = Append(@, [id |-> id, type |-> type, timed |-> TRUE]),
                            !.timers = @ \cup {id}],
                  "queued">>

\* faulty variant: the fairness option is ignored, readers always join active readers
acquireReadLockBarging(L, timeout, id) ==
  IF L.counts.read > 0 \/ (~(L.counts.write > 0) /\ Len(L.waiting) = 0)
    THEN <<newLock([L EXCEPT !.counts.read = @ + 1], id, "read"), "granted">>
    ELSE acquireLock(L, "read", timeout, id)

\* faulty variant: the non-fair shortcut is missing
acquireReadLockQueueing(L, timeout, id) ==
  IF ~(L.counts.write > 0) /\ Len(L.waiting) = 0
    THEN <<newLock([L EXCEPT !.counts.read = @ + 1], id, "read"), "granted">>
    ELSE acquireLock(L, "read", timeout, id)

acquireReadLock(L, timeout, id) ==
  IF (L.counts.read > 0 /\ ~fair) \/ (~(L.counts.write > 0) /\ Len(L.waiting) = 0)
    THEN <<newLock([L EXCEPT !.counts.read = @ + 1], id, "read"), "granted">>
    ELSE acquireLock(L, "read", timeout, id)

\* faulty variant: held read locks are not looked at
acquireWriteLockIgnoringReaders(L, timeout, id) ==
  IF L.counts.write = 0
    THEN <<newLock([L EXCEPT !.counts.write = @ + 1], id, "write"), "granted">>
    ELSE acquireLock(L, "write", timeout, id)

acquireWriteLock(L, timeout, id) ==
  IF L.counts.read = 0 /\ L.counts.write = 0
    THEN <<newLock([L EXCEPT !.counts.write = @ + 1], id, "write"), "granted">>
    ELSE acquireLock(L, "write", timeout, id)

\* faulty variant: the handle is left held by release()
releaseLeavingHeld(L, h) ==
  IF L.handles[h].type = "read" THEN releaseReadLock(L) ELSE releaseWriteLock(L)

\* ReadLockImpl.release / WriteLockImpl.release on a held handle
release(L, h) ==
  LET L1 == IF L.handles[h].type = "read" THEN releaseReadLock(L) ELSE releaseWriteLock(L)
  IN  [L1 EXCEPT !.handles[h].held = FALSE]

\* faulty variant: the downgrade wakes nobody
downgradeWithoutWake(L, h, id) ==
  LET L1 == [L EXCEPT !.counts.read = @ + 1, !.counts.write = @ - 1]
  IN  [newLock(L1, id, "read") EXCEPT !.handles[h].held = FALSE]

\* faulty variant: the downgrade wakes the head of the queue whatever its type
downgradeWakingHead(L, h, id) ==
  LET L1 == activateLocks([L EXCEPT !.counts.read = @ + 1, !.counts.write = @ - 1])
  IN  [newLock(L1, id, "read") EXCEPT !.handles[h].held = FALSE]

\* #downgradeToReadLock, then WriteLockImpl sets #held = false
downgradeToReadLock(L, h, id) ==
  LET L1 == activateReadLocks([L EXCEPT !.counts.read = @ + 1, !.counts.write = @ - 1])
  IN  [newLock(L1, id, "read") EXCEPT !.handles[h].held = FALSE]

installLock(L, last) ==
  /\ counts' = L.counts
  /\ lockWaiting' = L.waiting
  /\ handles' = L.handles
  /\ lockTimers' = L.timers
  /\ lockLast' = last
  /\ UNCHANGED <<fair, idLimit>>
  /\ UNCHANGED mapVars
  /\ UNCHANGED semVars
  /\ UNCHANGED latchVars

\* the call, the id it concerns, its timeout argument and its outcome
Last(op, id, arg, res) == [op |-> op, id |-> id, arg |-> arg, res |-> res]

AcquireRead(t) ==
  /\ freeIds # {}
  /\ LET r == acquireReadLock(lockState, t, freshId)
     IN  installLock(r[1], Last("acquireReadLock", freshId, t, r[2]))

AcquireWrite(t) ==
  /\ freeIds # {}
  /\ LET r == acquireWriteLock(lockState, t, freshId)
     IN  installLock(r[1], Last("acquireWriteLock", freshId, t, r[2]))

\* release() on a handle that is held
Release(h) ==
  /\ h \in DOMAIN handles
  /\ handles[h].held
  /\ installLock(release(lockState, h), Last("release", h, None, "ok"))

\* faulty variant: a rejected upgrade gives the read lock back
UpgradeRestoringOnReject(h, t) ==
  /\ h \in DOMAIN handles
  /\ handles[h].held
  /\ handles[h].type = "read"
  /\ freeIds # {}
  /\ LET r == acquireWriteLock(release(lockState, h), t, freshId)
     IN  installLock(IF r[2] = "rejected" THEN lockState ELSE r[1],
                     Last("upgradeToWriteLock", freshId, t, r[2]))

\* faulty variant: the upgrade of the only read lock takes the write lock at
\* once, past whatever is waiting
UpgradeAtomically(h, t) ==
  /\ h \in DOMAIN handles
  /\ handles[h].held
  /\ handles[h].type = "read"
  /\ freeIds # {}
  /\ LET L1 == [lockState EXCEPT !.counts.read = @ - 1, !.handles[h].held = FALSE]
         r == acquireWriteLock(L1, t, freshId)
     IN  installLock(r[1], Last("upgradeToWriteLock", freshId, t, r[2]))

\* upgradeToWriteLock(timeout) on a held read handle: release(), then acquireWriteLock
Upgrade(h, t) ==
  /\ h \in DOMAIN handles
  /\ handles[h].held
  /\ handles[h].type = "read"
  /\ freeIds # {}
  /\ LET r == acquireWriteLock(release(lockState, h), t, freshId)
     IN  installLock(r[1], Last("upgradeToWriteLock", freshId, t, r[2]))

Downgrade(h) ==
  /\ h \in DOMAIN handles
  /\ handles[h].held
  /\ handles[h].type = "write"
  /\ freeIds # {}
  /\ installLock(downgradeToReadLock(lockState, h, freshId),
                 Last("downgradeToReadLock", freshId, None, "granted"))

\* faulty variant: the call goes on without #verifyHeld, a release is done again
NotHeldUnverified(h, op) ==
  /\ h \in DOMAIN handles
  /\ ~handles[h].held
  /\ op = "downgradeToReadLock" => handles[h].type = "write"
  /\ op = "upgradeToWriteLock" => handles[h].type = "read"
  /\ installLock(release(lockState, h), Last(op, h, None, "ok"))

\* release / upgradeToWriteLock / downgradeToReadLock on a handle that is no
\* longer held: #verifyHeld throws before anything is touched
NotHeld(h, op) ==
  /\ h \in DOMAIN handles
  /\ ~handles[h].held
  /\ op = "downgradeToReadLock" => handles[h].type = "write"
  /\ op = "upgradeToWriteLock" => handles[h].type = "read"
  /\ installLock(lockState, Last(op, h, None, "error"))

\* the setTimeout() callback of a waiting acquisition
LockTimeout(id) ==
  /\ id \in lockTimers
  /\ installLock([lockState EXCEPT
                    !.waiting = SelectSeq(@, LAMBDA l : l.id # id),
                    !.timers = @ \ {id}],
                 Last("timeout", id, None, "rejected"))

\* the application drops its reference to a handle that is no longer held
Forget(h) ==
  /\ h \in DOMAIN handles
  /\ ~handles[h].held
  /\ installLock([lockState EXCEPT !.handles = [x \in (DOMAIN @) \ {h} |-> @[x]]],
                 Last("forget", h, None, "ok"))

\* ---------------------------------------------------------- Semaphore
\* resolve() / reject() of a promise: only a pending promise changes
settlePromise(ps, id, outcome) ==
  [x \in DOMAIN ps |-> IF x = id /\ ps[x] = "pending" THEN outcome ELSE ps[x]]

\* the permits arguments tried, one of them negative
PermitArgs == -1..MaxPermits
ReleaseArgs == -1..MaxAvailable
\* the timeout arguments of tryAcquire(options) tried: -1, 0 and 50 ms
SemTimeouts == {-1, 0, 50}

semState ==
  [permits |-> permits, waiting |-> semWaiting, timers |-> semTimers,
   promises |-> semPromises, served |-> <<>>]

\* faulty variant: the callback of a timed acquirer leaves its timer scheduled
semCallbackKeepingTimer(S, a) ==
  [S EXCEPT !.promises = settlePromise(@, a.id, IF a.timed THEN "true" ELSE "resolved"),
            !.served = Append(@, a.id)]

\* acquirer.callback(): resolve() of acquire, or clearTimeout(timer) and
\* resolve(true) of tryAcquire(options)
semCallback(S, a) ==
  [S EXCEPT !.timers = @ \ {a.id},
            !.promises = settlePromise(@, a.id, IF a.timed THEN "true" ELSE "resolved"),
            !.served = Append(@, a.id)]

RECURSIVE drainServingAny(_, _)
RECURSIVE drainFromTail(_, _)
RECURSIVE drainUntilBlocked(_, _)
RECURSIVE drain(_, _)

\* faulty variant: a waiter is served whenever any permit is available
drainServingAny(S, old) ==
  IF old = <<>>
    THEN S
    ELSE IF S.permits > 0
           THEN drainServingAny(
                  semCallback([S EXCEPT !.permits = @ - Head(old).permitsNeeded], Head(old)),
                  Tail(old))
           ELSE drainServingAny([S EXCEPT !.waiting = Append(@, Head(old))], Tail(old))

\* faulty variant: the old array is walked from its end
drainFromTail(S, old) ==
  IF old = <<>>
    THEN S
    ELSE LET a == old[Len(old)]
             rest == SubSeq(old, 1, Len(old) - 1)
         IN  IF S.permits >= a.permitsNeeded
               THEN drainFromTail(semCallback([S EXCEPT !.permits = @ - a.permitsNeeded], a), rest)
               ELSE drainFromTail([S EXCEPT !.waiting = <<a>> \o @], rest)

\* faulty variant: the walk stops at the first acquirer that does not fit
drainUntilBlocked(S, old) ==
  IF old = <<>>
    THEN S
    ELSE IF S.permits >= Head(old).permitsNeeded
           THEN drainUntilBlocked(
                  semCallback([S EXCEPT !.permits = @ - Head(old).permitsNeeded], Head(old)),
                  Tail(old))
           ELSE [S EXCEPT !.waiting = @ \o old]

\* release(): the loop over the old array `waiting`
drain(S, old) ==
  IF old = <<>>
    THEN S
    ELSE IF S.permits >= Head(old).permitsNeeded
           THEN drain(semCallback([S EXCEPT !.permits = @ - Head(old).permitsNeeded], Head(old)),
                      Tail(old))
           ELSE drain([S EXCEPT !.waiting = Append(@, Head(old))], Tail(old))

installSem(S, op, p, res) ==
  /\ permits' = S.permits
  /\ semWaiting' = S.waiting
  /\ semTimers' = S.timers
  /\ semPromises' = S.promises
  /\ UNCHANGED <<semFollowed, semLimit>>
  /\ semLast' = [op |-> op, p |-> p, res |-> res, served |-> S.served]
  /\ UNCHANGED mapVars
  /\ UNCHANGED lockVars
  /\ UNCHANGED latchVars

enqueue(S, p, timed) ==
  [S EXCEPT !.waiting = Append(@, [id |-> semNext, permitsNeeded |-> p, timed |-> timed]),
            !.timers = IF timed THEN @ \cup {semNext} ELSE @,
            !.promises = IF semFollowed
                           THEN [x \in (DOMAIN @) \cup {semNext} |->
                                   IF x = semNext THEN "pending" ELSE @[x]]
                           ELSE @]

\* faulty variant: the constructor takes any number of permits
NewSemaphoreUnchecked(n) ==
  /\ semNext' = 1
  /\ installSem([permits |-> n, waiting |-> <<>>, timers |-> {}, promises |-> <<>>,
                 served |-> <<>>],
                "new", n, "ok")

\* new Semaphore(n): the constructor throws and no object is made, or the
\* application goes on with the new semaphore
NewSemaphore(n) ==
  IF n < 0
    THEN installSem(semState, "new", n, "error") /\ UNCHANGED semNext
    ELSE /\ semNext' = 1
         /\ installSem([permits |-> n, waiting |-> <<>>, timers |-> {}, promises |-> <<>>,
                        served |-> <<>>],
                       "new", n, "ok")

\* acquire(permits)
Acquire(p) ==
  IF p < 0
    THEN installSem(semState, "acquire", p, "error") /\ UNCHANGED semNext
    ELSE IF permits >= p
           THEN /\ installSem([semState EXCEPT !.permits = @ - p], "acquire", p, "acquired")
                /\ UNCHANGED semNext
           ELSE /\ semNext <= semLimit
                /\ installSem(enqueue(semState, p, FALSE), "acquire", p, "queued")
                /\ semNext' = semNext + 1

\* tryAcquire() / tryAcquire(permits): the synchronous form
TryAcquire(p) ==
  /\ UNCHANGED semNext
  /\ IF p < 0
       THEN installSem(semState, "tryAcquire", p, "error")
       ELSE IF permits >= p
              THEN installSem([semState EXCEPT !.permits = @ - p], "tryAcquire", p, "acquired")
              ELSE installSem(semState, "tryAcquire", p, "false")

\* faulty variant: a waiter is enqueued whatever the timeout is
TryAcquireTimedAlwaysQueueing(p, t) ==
  IF p < 0
    THEN installSem(semState, "tryAcquireTimed", p, "error") /\ UNCHANGED semNext
    ELSE IF permits >= p
           THEN /\ installSem([semState EXCEPT !.permits = @ - p], "tryAcquireTimed", p, "acquired")
                /\ UNCHANGED semNext
           ELSE /\ semNext <= semLimit
                /\ installSem(enqueue(semState, p, TRUE), "tryAcquireTimed", p, "queued")
                /\ semNext' = semNext + 1

\* tryAcquire({permits, timeout})
TryAcquireTimed(p, t) ==
  IF p < 0
    THEN installSem(semState, "tryAcquireTimed", p, "error") /\ UNCHANGED semNext
    ELSE IF permits >= p
           THEN /\ installSem([semState EXCEPT !.permits = @ - p], "tryAcquireTimed", p, "acquired")
                /\ UNCHANGED semNext
           ELSE IF t <= 0
                  THEN installSem(semState, "tryAcquireTimed", p, "false") /\ UNCHANGED semNext
                  ELSE /\ semNext <= semLimit
                       /\ installSem(enqueue(semState, p, TRUE), "tryAcquireTimed", p, "queued")
                       /\ semNext' = semNext + 1

\* release(permits)
ReleaseSem(p) ==
  /\ UNCHANGED semNext
  /\ IF p < 0
       THEN installSem(semState, "release", p, "error")
       ELSE /\ permits + p <= MaxAvailable
            /\ installSem(drain([semState EXCEPT !.permits = @ + p, !.waiting = <<>>], semWaiting),
                          "release", p, "ok")

\* faulty variant: the number returned is read after the permits are zeroed
DrainPermitsReadingAfter ==
  /\ UNCHANGED semNext
  /\ installSem([semState EXCEPT !.permits = 0], "drainPermits", 0, 0)

\* drainPermits(): res is the number returned
DrainPermits ==
  /\ UNCHANGED semNext
  /\ installSem([semState EXCEPT !.permits = 0], "drainPermits", 0, permits)

\* the setTimeout() callback of a waiting tryAcquire: resolve(false)
SemTimeout(id) ==
  /\ id \in semTimers
  /\ UNCHANGED semNext
  /\ installSem([semState EXCEPT !.waiting = SelectSeq(@, LAMBDA a : a.id # id),
                                 !.timers = @ \ {id},
                                 !.promises = settlePromise(@, id, "false")],
                "timeout", id, "false")

\* ----------------------------------------------------- CountDownLatch
\* the timeout arguments of await tried: undefined, -1, 0 and 50 ms
LatchTimeouts == {None, <<-1>>, <<0>>, <<50>>}

latchState ==
  [count |-> latchCount, waiting |-> latchWaiting, timers |-> latchTimers,
   promises |-> latchPromises, called |-> <<>>]

\* an element of #waiting is called: resolve for an untimed await, the
\* `callback` of a timed one, which does clearTimeout(timer) first
latchCallback(T, w) ==
  [T EXCEPT !.timers = @ \ {w.id},
            !.promises = settlePromise(@, w.id, "resolved"),
            !.called = Append(@, w.id)]

RECURSIVE resolveAll(_, _)
\* countDown(): the loop over the old array `waiting`
resolveAll(T, old) ==
  IF old = <<>> THEN T ELSE resolveAll(latchCallback(T, Head(old)), Tail(old))

\* faulty variant: the count is decremented without looking at it
countDownUnguarded(T) ==
  LET T1 == [T EXCEPT !.count = @ - 1]
  IN  IF T1.count = 0
        THEN resolveAll([T1 EXCEPT !.waiting = <<>>], T1.waiting)
        ELSE T1

\* countDown()
countDown(T) ==
  IF T.count > 0
    THEN LET T1 == [T EXCEPT !.count = @ - 1]
         IN  IF T1.count = 0
               THEN resolveAll([T1 EXCEPT !.waiting = <<>>], T1.waiting)
               ELSE T1
    ELSE T

\* faulty variant: the timer rejects without removing the callback from #waiting
latchTimerFiresKeepingWaiter(T, id) ==
  [T EXCEPT !.timers = @ \ {id},
            !.promises = settlePromise(@, id, "rejected")]

\* the setTimeout() callback of a timed await: filter #waiting, reject
latchTimerFires(T, id) ==
  [T EXCEPT !.waiting = SelectSeq(@, LAMBDA w : w.id # id),
            !.timers = @ \ {id},
            !.promises = settlePromise(@, id, "rejected")]

\* a new promise whose executor pushes onto #waiting
latchEnqueue(T, id, timed) ==
  [T EXCEPT !.waiting = Append(@, [id |-> id, timed |-> timed]),
            !.timers = IF timed THEN @ \cup {id} ELSE @,
            !.promises = [x \in (DOMAIN @) \cup {id} |-> IF x = id THEN "pending" ELSE @[x]]]

installLatch(T, op, arg, res) ==
  /\ latchCount' = T.count
  /\ latchWaiting' = T.waiting
  /\ latchTimers' = T.timers
  /\ latchPromises' = T.promises
  /\ latchLast' = [op |-> op, arg |-> arg, res |-> res, called |-> T.called]
  /\ UNCHANGED latchInitial
  /\ UNCHANGED mapVars
  /\ UNCHANGED lockVars
  /\ UNCHANGED semVars

\* the count arguments of the constructor tried, one of them negative
CountArgs == -1..MaxCount

\* new CountDownLatch(c): the constructor throws and no object is made, or the
\* application goes on with the new latch
NewCountDownLatch(c) ==
  /\ IF c < 0
       THEN /\ latchLast' = [op |-> "new", arg |-> <<c>>, res |-> "error", called |-> <<>>]
            /\ UNCHANGED <<latchInitial, latchCount, latchWaiting, latchTimers,
                           latchPromises, latchNext>>
       ELSE /\ latchInitial' = c
            /\ latchCount' = c
            /\ latchWaiting' = <<>>
            /\ latchTimers' = {}
            /\ latchPromises' = <<>>
            /\ latchNext' = 1
            /\ latchLast' = [op |-> "new", arg |-> <<c>>, res |-> "ok", called |-> <<>>]
  /\ UNCHANGED mapVars
  /\ UNCHANGED lockVars
  /\ UNCHANGED semVars

\* faulty variant: the timeout is looked at before the count
AwaitTimeoutFirst(t) ==
  IF t # None /\ t[1] <= 0
    THEN installLatch(latchState, "await", t, "rejected") /\ UNCHANGED latchNext
    ELSE IF latchCount = 0
           THEN installLatch(latchState, "await", t, "resolved") /\ UNCHANGED latchNext
           ELSE /\ latchNext <= MaxWaiters
                /\ installLatch(latchEnqueue(latchState, latchNext, t # None),
                                "await", t, "queued")
                /\ latchNext' = latchNext + 1

\* await(timeout)
Await(t) ==
  IF latchCount = 0
    THEN installLatch(latchState, "await", t, "resolved") /\ UNCHANGED latchNext
    ELSE IF t = None
           THEN /\ latchNext <= MaxWaiters
                /\ installLatch(latchEnqueue(latchState, latchNext, FALSE), "await", t, "queued")
                /\ latchNext' = latchNext + 1
           ELSE IF t[1] <= 0
                  THEN installLatch(latchState, "await", t, "rejected") /\ UNCHANGED latchNext
                  ELSE /\ latchNext <= MaxWaiters
                       /\ installLatch(latchEnqueue(latchState, latchNext, TRUE),
                                       "await", t, "queued")
                       /\ latchNext' = latchNext + 1

CountDown ==
  /\ installLatch(countDown(latchState), "countDown", None, "ok")
  /\ UNCHANGED latchNext

\* the timer of a waiting timed await fires
LatchTimeout(id) ==
  /\ id \in latchTimers
  /\ installLatch(latchTimerFires(latchState, id), "timeout", <<id>>, "rejected")
  /\ UNCHANGED latchNext

\* ------------------------------------------------- ConcurrentMap claims
\* user functions of key k that have been started and have not yet produced
\* their outcome
inFlight(k) == {r \in running : r.key = k /\ r.phase = "run"}

\* numbers of the operations on key k that are still running or queued
liveOps(k) ==
  {r.id : r \in inFlight(k)} \cup
  (IF k \in DOMAIN pending THEN {pending[k][i].id : i \in 1..Len(pending[k])} ELSE {})

MutatingOps ==
  {"set", "delete", "deleteValue", "setIfAbsent", "setIfPresent", "replace",
   "compute", "computeIfAbsent", "computeIfPresent", "merge"}

\* C1: single-flight: in every reachable state at most one action per key is
\* in flight.
C1_SingleFlight == \A k \in Keys : Cardinality(inFlight(k)) <= 1

\* C2: the promise of a mutating operation on key k is settled only when no
\* operation on k that was submitted earlier is still running or queued.
C2_SettlesAfterEarlier ==
  \A s \in settled : s.op \in MutatingOps => \A i \in liveOps(s.key) : i > s.id

\* C10: the promise of getLatest(k) is resolved only when no operation on k
\* submitted before it is still running or queued, and (when it is the only
\* promise settled by the step) with the value k has then.
C10_GetLatestAfterEarlier ==
  \A s \in settled : s.op = "getLatest" =>
    /\ \A i \in liveOps(s.key) : i > s.id
    /\ settled = {s} => s.val = current[s.key]

\* C11: the promise of clear() is resolved only when no operation submitted
\* before it, on any key, is still running or queued; and when nothing has been
\* submitted after the clear() the map then holds no entry at all.
C11_ClearAfterAll ==
  \A s \in settled : s.op = "clear" =>
    /\ \A k \in Keys : \A i \in liveOps(k) : i > s.id
    /\ nextOp = s.id + 1 => \A k \in Keys : current[k] = Undef

\* the step delivers the outcome of the user function of the running action r
completesNow(r) ==
  r \in running /\ r.phase = "run" /\ [r EXCEPT !.phase = "fin"] \in running'

\* C12: when the user function of compute, computeIfAbsent, computeIfPresent or
\* merge fails, the promise of the operation is rejected with the error and the
\* entry of the key is the one the action found when it started.
C12_FailureLeavesEntry ==
  [][\A r \in running : (completesNow(r) /\ applyFn(r) = Fail) =>
       /\ [id |-> r.id, op |-> r.op, key |-> r.key, val |-> Fail, ok |-> FALSE] \in settled'
       /\ current'[r.key] = r.old
  ]_vars

\* the step in which a user function fails stores nothing: the map is unchanged
C12_FailingStepStoresNothing ==
  [][\A r \in running : (completesNow(r) /\ applyFn(r) = Fail) => current' = current]_vars

\* continuation c was taken from its queue and invoked in the step: a
\* compute-family action is now running or was settled without calling its
\* function, any other operation was settled, a step of clear() has run
executedNow(c) ==
  /\ \A i \in 1..Len(queueOf(pending', c.key)) : pending'[c.key][i].id # c.id
  /\ CASE c.op = "clearStep" -> TRUE
       [] c.op \in ComputeOps ->
            \/ \E r \in running' : r.id = c.id /\ r.phase = "run"
            \/ \E t \in settled' : t.id = c.id /\ t.ok
       [] OTHER -> \E t \in settled' : t.id = c.id /\ t.ok

\* C13: the finally() reaction of a failed action on key k invokes the first
\* continuation queued for k; the continuations invoked by the step are a prefix
\* of the queue and the rest stays queued in order; a queue always has a running
\* action of its key that will trigger it; every started action settles its
\* promise when its function has produced its outcome.
C13_FailureIsolation ==
  /\ \A k \in DOMAIN pending : \E r \in running : r.key = k
  /\ [][/\ \A r \in running :
             (r.phase = "fin" /\ applyFn(r) = Fail /\ r \notin running') =>
               LET q == queueOf(pending, r.key)
                   q1 == queueOf(pending', r.key)
               IN  /\ q # <<>> => executedNow(Head(q))
                   /\ \E n \in 0..Len(q) :
                        /\ q1 = SubSeq(q, n + 1, Len(q))
                        /\ \A i \in 1..n : executedNow(q[i])
        /\ \A r \in running : completesNow(r) => \E t \in settled' : t.id = r.id
        /\ \A k \in DOMAIN pending' : \E r \in running' : r.key = k
     ]_vars

\* the finally() of a failed action has just run two queued operations of its key
C13_Witness ==
  /\ finished # <<>>
  /\ applyFn(finished[1]) = Fail
  /\ Cardinality(settled) = 2
  /\ \A t \in settled : t.key = finished[1].key /\ t.id > finished[1].id

\* a completed action settles a promise of key k, or clear() deletes the entry
\* of k: at once for an idle key, by its appended step otherwise
completedOn(k) ==
  \/ \E t \in settled' : t.key = k /\ t.ok
  \/ /\ nextOp' = nextOp + 1
     /\ k \notin DOMAIN pending
     /\ \/ \E t \in settled' : t.op = "clear" /\ t.id = nextOp
        \/ \E j \in DOMAIN pending' : \E i \in 1..Len(pending'[j]) :
             pending'[j][i].op = "clearStep" /\ pending'[j][i].id = nextOp
  \/ \E i \in 1..Len(queueOf(pending, k)) :
       pending[k][i].op = "clearStep" /\ executedNow(pending[k][i])

\* C14: a snapshot observer can always be called, changes neither the entries
\* nor the queues nor the running actions, and reports what #current holds; an
\* action that starts leaves the value of its key as it found it, and the value
\* of a key changes only in a step in which an action on that key completes.
C14_SnapshotObservers ==
  /\ [](\A o \in Observers, k \in Keys \cup {0} :
          ((k = 0) = (o \notin {"get", "has"})) => ENABLED Observe(o, k))
  /\ [][/\ observed' # <<>> =>
             /\ UNCHANGED <<current, pending, running, nextOp>>
             /\ LET c == observed'[1]
                IN  CASE c.op = "size" -> c.val = Cardinality({k \in Keys : current[k] # Undef})
                      [] c.op = "get" -> c.val = current[c.key]
                      [] c.op = "has" -> c.val = (current[c.key] # Undef)
                      [] c.op = "keys" -> c.val = {k \in Keys : current[k] # Undef}
                      [] c.op = "values" ->
                           c.val = {current[k] : k \in {j \in Keys : current[j] # Undef}}
                      [] c.op = "entries" ->
                           c.val = {<<k, current[k]>> : k \in {j \in Keys : current[j] # Undef}}
        /\ \A r \in running' \ running : r.phase = "run" => current'[r.key] = r.old
        /\ \A k \in Keys : current'[k] # current[k] => completedOn(k)
     ]_vars

\* get(k) has just reported the previous value of a key whose compute, which
\* will store another value, is in flight
C14_Witness ==
  /\ observed # <<>>
  /\ observed[1].op = "get"
  /\ observed[1].val # Undef
  /\ \E r \in inFlight(observed[1].key) :
       r.op = "compute" /\ r.fn = "val" /\ observed[1].val = r.old

ConditionalOps ==
  {"setIfAbsent", "setIfPresent", "replace", "deleteValue",
   "computeIfAbsent", "computeIfPresent", "merge"}

\* continuation c, invoked in the step, made its test against value v
testedAgainst(c, v) ==
  IF c.op \in ComputeOps
    THEN IF skipsFn(c.op, v)
           THEN [id |-> c.id, op |-> c.op, key |-> c.key,
                 val |-> skipResult(c, v)[2], ok |-> TRUE] \in settled'
           ELSE \E r \in running' : r.id = c.id /\ r.phase = "run" /\ r.old = v
    ELSE [id |-> c.id, op |-> c.op, key |-> c.key,
          val |-> direct(c, v)[2], ok |-> TRUE] \in settled'

\* C15: a conditional operation submitted while an action on its key is in
\* flight is neither settled nor started by the step that submits it; when the
\* finally() of the action before it invokes it, it makes its test against the
\* value that action left.
C15_ConditionalAtTurn ==
  [][/\ \A k \in Keys : (inFlight(k) # {} /\ nextOp' = nextOp + 1) =>
          /\ \A t \in settled' : ~(t.id = nextOp /\ t.key = k /\ t.op \in ConditionalOps)
          /\ \A r \in running' : ~(r.id = nextOp /\ r.key = k /\ r.op \in ConditionalOps)
     /\ (finished' # <<>> /\ finished'[1] \in running) =>
          LET q == queueOf(pending, finished'[1].key)
          IN  (q # <<>> /\ Head(q).op \in ConditionalOps) =>
                testedAgainst(Head(q), current[finished'[1].key])
  ]_vars

\* no action of key k is running or queued
idle(k) == queueOf(pending, k) = <<>> /\ \A r \in running : r.key # k

\* the step is the call of an operation (other than clear) on key k
submittedOn(k) ==
  /\ nextOp' = nextOp + 1
  /\ \/ \E t \in settled' : t.id = nextOp /\ t.key = k /\ t.op # "clear"
     \/ \E r \in running' : r.id = nextOp /\ r.key = k
     \/ \E i \in 1..Len(queueOf(pending', k)) :
          pending'[k][i].id = nextOp /\ pending'[k][i].op # "clearStep"

\* what the map holds for key k: entry, queue and running actions
stateOf(k, cur, pend, run) ==
  <<cur[k], k \in DOMAIN pend, queueOf(pend, k), {r \in run : r.key = k}>>

\* C16: an operation called on a key with no running or queued action takes
\* effect or starts its function in the step of the call, whatever is running
\* or queued on other keys; a call on key k and the reactions of an action of
\* key k leave the entry, queue and running actions of every other key alone.
C16_KeyIndependence ==
  [][\A k \in Keys :
       /\ (idle(k) /\ submittedOn(k)) =>
            \/ \E t \in settled' : t.id = nextOp /\ t.key = k
            \/ \E r \in running' : r.id = nextOp /\ r.key = k /\ r.phase = "run"
       /\ ( \/ submittedOn(k)
            \/ \E r \in running : r.key = k /\ (completesNow(r) \/ finished' = <<r>>) ) =>
            \A j \in Keys \ {k} :
              stateOf(j, current', pending', running') = stateOf(j, current, pending, running)
  ]_vars

\* an operation on an idle key has just started its function while an action of
\* another key is in flight with an operation queued behind it
C16_Witness ==
  \E k1, k2 \in Keys :
    /\ k1 # k2
    /\ inFlight(k1) # {}
    /\ queueOf(pending, k1) # <<>>
    /\ \E r \in inFlight(k2) : r.id = nextOp - 1

\* ------------------------------------------------- CountDownLatch claims
\* ids of the awaits in #waiting, in order
waitingIds(q) == [i \in 1..Len(q) |-> q[i].id]

\* C17: the count never increases and is never negative; countDown at a count
\* above 0 decrements by one, at 0 it changes nothing; the countDown that takes
\* the count from 1 to 0 resolves every waiting await in enqueue order and
\* empties the waiter list; the waiter list is empty whenever the count is 0.
C17_CountDown ==
  /\ [](latchCount >= 0 /\ (latchCount = 0 => latchWaiting = <<>>))
  /\ [][/\ latchCount' <= latchCount
        /\ latchLast'.op # "countDown" => latchCount' = latchCount
        /\ latchLast'.op = "countDown" =>
             /\ latchCount > 0 => latchCount' = latchCount - 1
             /\ latchCount = 0 =>
                  UNCHANGED <<latchCount, latchWaiting, latchTimers, latchPromises>>
             /\ latchCount = 1 =>
                  /\ latchWaiting' = <<>>
                  /\ latchLast'.called = waitingIds(latchWaiting)
                  /\ \A i \in 1..Len(latchWaiting) :
                       latchPromises'[latchWaiting[i].id] = "resolved"
             /\ latchCount # 1 =>
                  /\ latchLast'.called = <<>>
                  /\ UNCHANGED <<latchWaiting, latchTimers, latchPromises>>
     ]_vars

\* new CountDownLatch(2): the second countDown has resolved three waiting awaits
C17_Witness ==
  /\ latchInitial = 2
  /\ latchCount = 0
  /\ latchLast.op = "countDown"
  /\ latchLast.called = <<1, 2, 3>>
  /\ \A id \in 1..3 : latchPromises[id] = "resolved"

\* C18: await at count 0 resolves at once for every timeout argument and
\* schedules no timer; await with a timeout of 0 or less at a count above 0 is
\* rejected at once; in both cases count, waiter list and timers are unchanged.
C18_AwaitImmediate ==
  [][latchLast'.op = "await" =>
       /\ latchCount = 0 =>
            /\ latchLast'.res = "resolved"
            /\ UNCHANGED <<latchCount, latchWaiting, latchTimers, latchPromises, latchNext>>
       /\ (latchCount > 0 /\ latchLast'.arg # None /\ latchLast'.arg[1] <= 0) =>
            /\ latchLast'.res = "rejected"
            /\ UNCHANGED <<latchCount, latchWaiting, latchTimers, latchPromises, latchNext>>
  ]_vars

\* await(-1) has just resolved at once on a latch counted down from 2 to 0
C18_Witness ==
  /\ latchInitial = 2
  /\ latchCount = 0
  /\ latchLast = [op |-> "await", arg |-> <<-1>>, res |-> "resolved", called |-> <<>>]
  /\ latchTimers = {}

\* C19: a timed await that waits is settled once: a scheduled timer belongs to
\* a waiting callback whose promise is pending; a timer that fires removes its
\* callback from the waiter list, rejects the promise and leaves the count and
\* the other waiters alone; countDown calls only callbacks of pending promises
\* and cancels their timers, so no timer is scheduled once the count is 0 and a
\* promise that was rejected by its timer is not called again.
C19_TimedAwaitOnce ==
  /\ [](/\ \A id \in latchTimers :
             \E i \in 1..Len(latchWaiting) : latchWaiting[i] = [id |-> id, timed |-> TRUE]
        /\ \A i \in 1..Len(latchWaiting) :
             /\ latchPromises[latchWaiting[i].id] = "pending"
             /\ latchWaiting[i].timed => latchWaiting[i].id \in latchTimers
        /\ latchCount = 0 => latchTimers = {})
  /\ [][/\ latchLast'.op = "timeout" =>
             LET id == latchLast'.arg[1]
             IN  /\ latchPromises[id] = "pending"
                 /\ latchPromises' = [latchPromises EXCEPT ![id] = "rejected"]
                 /\ latchWaiting' = SelectSeq(latchWaiting, LAMBDA w : w.id # id)
                 /\ Len(latchWaiting') = Len(latchWaiting) - 1
                 /\ latchTimers' = latchTimers \ {id}
                 /\ latchCount' = latchCount
        /\ \A i \in 1..Len(latchLast'.called) :
             /\ latchPromises[latchLast'.called[i]] = "pending"
             /\ latchPromises'[latchLast'.called[i]] = "resolved"
        /\ \A id \in DOMAIN latchPromises :
             latchPromises[id] # "pending" => latchPromises'[id] = latchPromises[id]
     ]_vars

\* one timed await was rejected by its timer, and a later countDown to 0 has
\* resolved another timed await and cancelled its timer
C19_Witness ==
  /\ latchCount = 0
  /\ latchLast.op = "countDown"
  /\ latchTimers = {}
  /\ \E a, b \in DOMAIN latchPromises :
       /\ latchPromises[a] = "rejected"
       /\ latchPromises[b] = "resolved"
       /\ latchLast.called = <<b>>

\* ------------------------------------------------- ReadWriteLock claims
\* C3: mutual exclusion: the write count is 0 or 1 and a read lock and the write
\* lock are never held at the same time.
C3_MutualExclusion ==
  /\ counts.write \in {0, 1}
  /\ counts.read >= 0
  /\ ~(counts.read > 0 /\ counts.write > 0)

\* the write lock was handed to a queued writer by a release while others wait
C3_Witness ==
  /\ lockLast.op = "release"
  /\ counts.write = 1
  /\ Len(lockWaiting) >= 2

\* the waiting acquisition w is granted by the step
grantedNow(w) == w.id \in DOMAIN handles'

\* queued acquisitions are granted in enqueue order, and nothing is granted
\* past a waiting acquisition
grantedInOrder ==
  /\ \A i, j \in 1..Len(lockWaiting) :
       (i < j /\ grantedNow(lockWaiting[j])) => grantedNow(lockWaiting[i])
  /\ ( /\ lockLast'.op \in {"acquireReadLock", "acquireWriteLock", "upgradeToWriteLock"}
       /\ lockLast'.res = "granted" )
     => lockWaiting = <<>>

nonPositive(t) == t # None /\ t[1] <= 0

\* C7 as amended: in a fair lock a read acquisition requested while any
\* acquisition is waiting is never granted: it is appended to the queue, or
\* rejected at once when its timeout is not positive; queued acquisitions are
\* granted in enqueue order.
C7_FairOrder ==
  [][fair =>
       /\ grantedInOrder
       /\ (lockLast'.op = "acquireReadLock" /\ lockWaiting # <<>>) =>
            /\ counts' = counts
            /\ handles' = handles
            /\ IF nonPositive(lockLast'.arg)
                 THEN lockLast'.res = "rejected" /\ lockWaiting' = lockWaiting
                 ELSE /\ lockLast'.res = "queued"
                      /\ lockWaiting' =
                           Append(lockWaiting, [id |-> lockLast'.id, type |-> "read",
                                                timed |-> lockLast'.arg # None])
  ]_vars

\* C7 as stated: such a read acquisition is always queued.
C7_FairOrderAsStated ==
  [][fair =>
       /\ grantedInOrder
       /\ (lockLast'.op = "acquireReadLock" /\ lockWaiting # <<>>) =>
            /\ lockLast'.res = "queued"
            /\ Len(lockWaiting') = Len(lockWaiting) + 1
  ]_vars

\* a fair lock: a reader was queued behind a waiting writer while a read lock is held
C7_Witness ==
  /\ fair
  /\ lockLast.op = "acquireReadLock"
  /\ lockLast.res = "queued"
  /\ counts.read > 0
  /\ Len(lockWaiting) >= 2
  /\ lockWaiting[1].type = "write"

\* C8: in a non-fair lock acquireReadLock called while a read lock is held is
\* granted immediately: the read count grows by one, the queue is unchanged,
\* whatever is waiting.
C8_NonFairBypass ==
  [][(~fair /\ counts.read > 0 /\ lockLast'.op = "acquireReadLock") =>
       /\ lockLast'.res = "granted"
       /\ counts' = [counts EXCEPT !.read = @ + 1]
       /\ lockWaiting' = lockWaiting
       /\ lockLast'.id \in DOMAIN handles'
       /\ handles'[lockLast'.id] = [type |-> "read", held |-> TRUE]
  ]_vars

\* a non-fair lock granted a read lock past two waiting writers
C8_Witness ==
  /\ ~fair
  /\ lockLast.op = "acquireReadLock"
  /\ lockLast.res = "granted"
  /\ counts.read >= 2
  /\ Len(lockWaiting) >= 2
  /\ \A i \in 1..Len(lockWaiting) : lockWaiting[i].type = "write"

untimedWriteWaiting(w) ==
  \E i \in 1..Len(lockWaiting) :
    lockWaiting[i] = [id |-> w, type |-> "write", timed |-> FALSE]

writeHeld(w) ==
  w \in DOMAIN handles /\ handles[w] = [type |-> "write", held |-> TRUE]

\* C9: in a fair lock whose granted locks are all eventually released, every
\* untimed waiting write acquisition is eventually granted.
C9_WriterLiveness == \A w \in Ids : untimedWriteWaiting(w) ~> writeHeld(w)

\* a queued writer got the write lock on a release while a reader waits behind it
C9_Witness ==
  /\ fair
  /\ lockLast.op = "release"
  /\ counts.write = 1
  /\ \E w \in DOMAIN handles : writeHeld(w)
  /\ \E i \in 1..Len(lockWaiting) : lockWaiting[i].type = "read"

\* a release() of the last lock that is held
lastLockReleased ==
  /\ lockLast'.op = "release"
  /\ lockLast'.res = "ok"
  /\ counts.read + counts.write = 1

RECURSIVE readPrefix(_)
\* the number of read acquisitions at the head of the queue q
readPrefix(q) ==
  IF q # <<>> /\ Head(q).type = "read" THEN 1 + readPrefix(Tail(q)) ELSE 0

\* the first n waiting acquisitions, and only they, are granted by the step
headGranted(n) ==
  /\ \A i \in 1..Len(lockWaiting) : grantedNow(lockWaiting[i]) <=> i <= n
  /\ \A i \in 1..n :
       handles'[lockWaiting[i].id] = [type |-> lockWaiting[i].type, held |-> TRUE]
  /\ lockWaiting' = SubSeq(lockWaiting, n + 1, Len(lockWaiting))

\* C23: in a fair lock, a release of the last held lock with a non-empty queue
\* grants the head waiter in that step; a read head takes with it exactly the
\* reads that immediately follow it, up to the first write waiter; after a
\* write head is granted no waiter is granted for as long as that write lock
\* stays held, that is until it is released or downgraded.
C23_FairWake ==
  [][fair =>
       /\ (lastLockReleased /\ lockWaiting # <<>>) =>
            IF Head(lockWaiting).type = "read"
              THEN /\ headGranted(readPrefix(lockWaiting))
                   /\ counts' = [read |-> readPrefix(lockWaiting), write |-> 0]
              ELSE /\ headGranted(1)
                   /\ counts' = [read |-> 0, write |-> 1]
       /\ \A h \in DOMAIN handles :
            (writeHeld(h) /\ handles'[h].held) =>
              /\ \A i \in 1..Len(lockWaiting) : ~grantedNow(lockWaiting[i])
              /\ counts' = counts
  ]_vars

\* a fair lock: the release of the write lock granted the read at the head and
\* left the writer behind it and the reader behind that writer in the queue
C23_Witness ==
  /\ fair
  /\ lockLast.op = "release"
  /\ lockLast.id \in DOMAIN handles
  /\ handles[lockLast.id].type = "write"
  /\ counts = [read |-> 1, write |-> 0]
  /\ Len(lockWaiting) = 2
  /\ lockWaiting[1].type = "write"
  /\ lockWaiting[2].type = "read"

\* the waiting acquisitions of the given type, in queue order
waitingOf(type) == SelectSeq(lockWaiting, LAMBDA w : w.type = type)

\* C24: in a non-fair lock, a release of the last held lock whose head waiter is
\* a read grants every read waiter wherever it is in the queue and leaves the
\* write waiters queued in their original relative order; when the head waiter
\* is a write, only that write is granted.
C24_NonFairWake ==
  [][(~fair /\ lastLockReleased /\ lockWaiting # <<>>) =>
       IF Head(lockWaiting).type = "read"
         THEN /\ \A i \in 1..Len(lockWaiting) :
                   grantedNow(lockWaiting[i]) <=> lockWaiting[i].type = "read"
              /\ \A i \in 1..Len(lockWaiting) :
                   lockWaiting[i].type = "read" =>
                     handles'[lockWaiting[i].id] = [type |-> "read", held |-> TRUE]
              /\ lockWaiting' = waitingOf("write")
              /\ counts' = [read |-> Len(waitingOf("read")), write |-> 0]
         ELSE /\ headGranted(1)
              /\ counts' = [read |-> 0, write |-> 1]
  ]_vars

\* a non-fair lock: the release of the write lock granted two waiting reads
\* and left a waiting write in the queue
C24_Witness ==
  /\ ~fair
  /\ lockLast.op = "release"
  /\ lockLast.id \in DOMAIN handles
  /\ handles[lockLast.id].type = "write"
  /\ counts = [read |-> 2, write |-> 0]
  /\ Len(lockWaiting) = 1
  /\ lockWaiting[1].type = "write"

\* C25: downgradeToReadLock() on a held write handle, in one step: the write
\* count becomes 0, the caller gets a new held read handle, the write handle is
\* no longer held, and waiting reads are granted by the wake policy (fair: the
\* reads at the head of the queue up to the first write; non-fair: every
\* waiting read), so that the read count is 1 plus the readers granted; no
\* write waiter is granted.
C25_Downgrade ==
  [][(lockLast'.op = "downgradeToReadLock" /\ lockLast'.res = "granted") =>
       /\ counts = [read |-> 0, write |-> 1]
       /\ counts'.write = 0
       /\ lockLast'.id \notin DOMAIN handles
       /\ handles'[lockLast'.id] = [type |-> "read", held |-> TRUE]
       /\ \E h \in DOMAIN handles :
            /\ writeHeld(h)
            /\ handles'[h] = [type |-> "write", held |-> FALSE]
            /\ \A x \in (DOMAIN handles) \ {h} : handles'[x] = handles[x]
       /\ \A i \in 1..Len(lockWaiting) :
            grantedNow(lockWaiting[i]) =>
              handles'[lockWaiting[i].id] = [type |-> "read", held |-> TRUE]
       /\ IF fair
            THEN /\ \A i \in 1..Len(lockWaiting) :
                      grantedNow(lockWaiting[i]) <=> i <= readPrefix(lockWaiting)
                 /\ lockWaiting' =
                      SubSeq(lockWaiting, readPrefix(lockWaiting) + 1, Len(lockWaiting))
                 /\ counts'.read = 1 + readPrefix(lockWaiting)
            ELSE /\ \A i \in 1..Len(lockWaiting) :
                      grantedNow(lockWaiting[i]) <=> lockWaiting[i].type = "read"
                 /\ lockWaiting' = waitingOf("write")
                 /\ counts'.read = 1 + Len(waitingOf("read"))
  ]_vars

\* a downgrade granted the waiting read next to the downgraded one and left
\* the waiting write in the queue
C25_Witness ==
  /\ lockLast.op = "downgradeToReadLock"
  /\ counts = [read |-> 2, write |-> 0]
  /\ Len(lockWaiting) = 1
  /\ lockWaiting[1].type = "write"
  /\ \E h \in DOMAIN handles : handles[h] = [type |-> "write", held |-> FALSE]

\* the waiter at place i is the one a release of the last held lock wakes
wokenByRelease(i) ==
  IF Head(lockWaiting).type = "write"
    THEN i = 1
    ELSE IF fair THEN i <= readPrefix(lockWaiting) ELSE lockWaiting[i].type = "read"

\* the waiting acquisitions that the step leaves in the queue
notGranted == SelectSeq(lockWaiting, LAMBDA w : ~grantedNow(w))

\* the number of waiting acquisitions of the given type that the step grants
grantedOf(type) == Len(SelectSeq(lockWaiting, LAMBDA w : grantedNow(w) /\ w.type = type))

\* a handle that is not held does not become held
staysReleased ==
  \A h \in (DOMAIN handles) \cap (DOMAIN handles') : ~handles[h].held => ~handles'[h].held

\* C26: upgradeToWriteLock(timeout) on a held read handle releases the read
\* lock in the same step, before the write lock is requested: the handle is no
\* longer held, the read count is decremented, and if it was the last lock the
\* head of the queue is woken; the write request is then granted, queued or
\* rejected against that state.  A request rejected for a timeout that is not
\* positive, or one whose timer fires later, does not give the read lock
\* back: the handle stays not held and the counts are not touched.
C26_UpgradeReleasesFirst ==
  [][/\ staysReleased
     /\ lockLast'.op = "timeout" => (counts' = counts /\ handles' = handles)
     /\ (lockLast'.op = "upgradeToWriteLock" /\ lockLast'.res # "error") =>
          /\ \E h \in DOMAIN handles :
               /\ handles[h] = [type |-> "read", held |-> TRUE]
               /\ handles'[h] = [type |-> "read", held |-> FALSE]
               /\ \A x \in (DOMAIN handles) \ {h} : handles'[x] = handles[x]
          /\ \A i \in 1..Len(lockWaiting) :
               grantedNow(lockWaiting[i]) <=> (counts.read = 1 /\ wokenByRelease(i))
          /\ LET id == lockLast'.id
                 t == lockLast'.arg
                 released == [read |-> counts.read - 1 + grantedOf("read"),
                              write |-> grantedOf("write")]
             IN  IF released = [read |-> 0, write |-> 0]
                   THEN /\ lockLast'.res = "granted"
                        /\ handles'[id] = [type |-> "write", held |-> TRUE]
                        /\ counts' = [read |-> 0, write |-> 1]
                        /\ lockWaiting' = <<>>
                   ELSE /\ counts' = released
                        /\ id \notin DOMAIN handles'
                        /\ IF nonPositive(t)
                             THEN /\ lockLast'.res = "rejected"
                                  /\ lockWaiting' = notGranted
                                  /\ lockTimers' \subseteq lockTimers
                             ELSE /\ lockLast'.res = "queued"
                                  /\ lockWaiting' =
                                       Append(notGranted,
                                              [id |-> id, type |-> "write", timed |-> t # None])
                                  /\ (id \in lockTimers') = (t # None)
  ]_vars

\* the only read lock was upgraded with a timeout that is not positive while a
\* writer waited: the writer has the write lock, the upgrade is rejected and
\* the read handle is not held
C26_Witness ==
  /\ lockLast.op = "upgradeToWriteLock"
  /\ lockLast.res = "rejected"
  /\ counts = [read |-> 0, write |-> 1]
  /\ \E h \in DOMAIN handles : handles[h] = [type |-> "read", held |-> FALSE]
  /\ \E h \in DOMAIN handles : writeHeld(h)

\* the ids of the acquisitions waiting in the queue q
idsOf(q) == {q[i].id : i \in 1..Len(q)}

\* the write acquisitions of q whose id is in ids, in queue order
writersAmong(q, ids) == SelectSeq(q, LAMBDA w : w.type = "write" /\ w.id \in ids)

onReleasedHandle ==
  /\ lockLast'.op \in {"release", "upgradeToWriteLock", "downgradeToReadLock"}
  /\ lockLast'.id \in DOMAIN handles
  /\ ~handles[lockLast'.id].held

\* C28: release() on a read or write handle, upgradeToWriteLock() on a read
\* handle and downgradeToReadLock() on a write handle that is no longer held
\* throw and leave the read count, the write count and the queue as they were
\* (handles and timers too); a handle that is not held never becomes held again.
C28_HandleStateErrors ==
  [][/\ onReleasedHandle <=> lockLast'.res = "error"
     /\ lockLast'.res = "error" =>
          /\ counts' = counts
          /\ lockWaiting' = lockWaiting
          /\ handles' = handles
          /\ lockTimers' = lockTimers
     /\ \A h \in (DOMAIN handles) \cap (DOMAIN handles') :
          handles'[h].held => handles[h] = handles'[h]
  ]_vars

\* downgradeToReadLock() was called again on a downgraded write handle while
\* the read lock it gave is held and an acquisition waits
C28_Witness ==
  /\ lockLast.op = "downgradeToReadLock"
  /\ lockLast.res = "error"
  /\ handles[lockLast.id] = [type |-> "write", held |-> FALSE]
  /\ counts.read >= 1
  /\ lockWaiting # <<>>

\* the timers scheduled are those of the timed acquisitions in the queue, and
\* no acquisition is in the queue twice or holds a handle
timersOfQueued ==
  /\ lockTimers = {lockWaiting[i].id : i \in {j \in 1..Len(lockWaiting) : lockWaiting[j].timed}}
  /\ \A i, j \in 1..Len(lockWaiting) : lockWaiting[i].id = lockWaiting[j].id => i = j
  /\ idsOf(lockWaiting) \cap DOMAIN handles = {}

\* the timer of the waiting acquisition w fires in the step
timedOutNow(w) == lockLast'.op = "timeout" /\ lockLast'.id = w.id

\* C29: a read or write acquisition with a timeout that is not positive and
\* that cannot be granted at once is rejected at once and is not enqueued (the
\* lock is left as it was).  A queued timed acquisition is settled exactly
\* once: it leaves the queue either granted (its count incremented, its timer
\* cancelled) or because its timer fires (removed from the queue, rejected,
\* counts and handles unchanged), never both; a timer exists only for an
\* acquisition still in the queue, and a handle is only ever made for the call
\* of the step or for an acquisition in the queue, so an acquisition that timed
\* out is never granted later.
C29_TimedAcquisition ==
  /\ [](timersOfQueued)
  /\ [][/\ ( /\ lockLast'.op \in {"acquireReadLock", "acquireWriteLock"}
              /\ nonPositive(lockLast'.arg) ) =>
              /\ lockLast'.res \in {"granted", "rejected"}
              /\ lockLast'.res = "rejected" =>
                   /\ counts' = counts
                   /\ lockWaiting' = lockWaiting
                   /\ handles' = handles
                   /\ lockTimers' = lockTimers
        /\ lockLast'.res = "rejected" =>
              /\ lockLast'.id \notin idsOf(lockWaiting')
              /\ lockLast'.id \notin lockTimers'
              /\ lockLast'.id \notin DOMAIN handles'
        /\ \A i \in 1..Len(lockWaiting) :
              LET w == lockWaiting[i]
              IN  /\ w.id \notin idsOf(lockWaiting') <=> (grantedNow(w) \/ timedOutNow(w))
                  /\ ~(grantedNow(w) /\ timedOutNow(w))
                  /\ grantedNow(w) =>
                       /\ handles'[w.id] = [type |-> w.type, held |-> TRUE]
                       /\ w.id \notin lockTimers'
                  /\ timedOutNow(w) =>
                       /\ w.timed
                       /\ w.id \in lockTimers
                       /\ w.id \notin lockTimers'
                       /\ lockWaiting' = SelectSeq(lockWaiting, LAMBDA l : l.id # w.id)
                       /\ counts' = counts
                       /\ handles' = handles
        /\ counts'.read + counts'.write =
             counts.read + counts.write
               + Cardinality((DOMAIN handles') \ (DOMAIN handles))
               - Cardinality({h \in (DOMAIN handles) \cap (DOMAIN handles') :
                                handles[h].held /\ ~handles'[h].held})
        /\ (DOMAIN handles') \ (DOMAIN handles) \subseteq idsOf(lockWaiting) \cup {lockLast'.id}
        /\ lockLast'.op = "timeout" => lockLast'.id \in idsOf(lockWaiting)
     ]_vars

\* the timer of a waiting acquisition fired while the write lock is held and
\* another timed acquisition is still waiting
C29_Witness ==
  /\ lockLast.op = "timeout"
  /\ lockLast.id \notin idsOf(lockWaiting) \cup DOMAIN handles
  /\ counts.write = 1
  /\ lockTimers # {}

\* C33: no wake-up is lost: in every reachable state of a fair or non-fair
\* lock, whatever the acquire, release, upgrade, downgrade and timeout events
\* before it, if an acquisition is waiting in the queue then a read lock or
\* the write lock is held.
C33_NoLostWakeup ==
  lockWaiting # <<>> => counts.read + counts.write > 0

\* the write lock was released to the writer at the head of the queue while a
\* reader and another writer wait behind it
C33_Witness ==
  /\ lockLast.op = "release"
  /\ lockLast.id \in DOMAIN handles
  /\ handles[lockLast.id] = [type |-> "write", held |-> FALSE]
  /\ counts = [read |-> 0, write |-> 1]
  /\ Len(lockWaiting) = 2
  /\ lockWaiting[1].type = "read"
  /\ lockWaiting[2].type = "write"

\* C34: in a fair lock, whenever a read acquisition is waiting, the write lock
\* is held or a write acquisition is waiting ahead of it in the queue; a reader
\* never waits while only read locks are held and no writer is held or queued
\* before it.
C34_FairReaderWaitsForWriter ==
  fair =>
    \A i \in 1..Len(lockWaiting) :
      lockWaiting[i].type = "read" =>
        \/ counts.write > 0
        \/ \E j \in 1..(i - 1) : lockWaiting[j].type = "write"

\* the number of handles of the given type whose isHeld() is true
heldHandles(type) ==
  Cardinality({h \in DOMAIN handles : handles[h] = [type |-> type, held |-> TRUE]})

\* C38: in every reachable state the number of read handles that are held is
\* the read count and the number of write handles that are held is the write
\* count, which is 0 or 1, whatever the immediate grants, queued grants,
\* releases, upgrades and downgrades before it.
C38_HandleAccounting ==
  /\ heldHandles("read") = counts.read
  /\ heldHandles("write") = counts.write
  /\ counts.write \in {0, 1}

\* a downgrade has granted a waiting reader: two read handles are held, the
\* write handle and a released read handle are not
C38_Witness ==
  /\ lockLast.op = "downgradeToReadLock"
  /\ lockLast.res = "granted"
  /\ heldHandles("read") = 2
  /\ \E h \in DOMAIN handles : handles[h] = [type |-> "write", held |-> FALSE]
  /\ lockWaiting # <<>>

\* C39: whenever acquireReadLock grants a read lock immediately (non-fair with
\* a read lock held, or no write lock held and an empty queue), no read
\* acquisition is waiting in the queue at that moment; and in a non-fair lock
\* no read acquisition is ever waiting while the write lock is not held.
C39_NoReaderLeftWaiting ==
  /\ [](~fair /\ counts.write = 0 => waitingOf("read") = <<>>)
  /\ [][(lockLast'.op = "acquireReadLock" /\ lockLast'.res = "granted") =>
          /\ waitingOf("read") = <<>>
          /\ lockWaiting' = lockWaiting
     ]_vars

\* a non-fair lock granted a third read lock at once while a timed writer is
\* the only acquisition waiting
C39_Witness ==
  /\ ~fair
  /\ lockLast.op = "acquireReadLock"
  /\ lockLast.res = "granted"
  /\ counts.read = 3
  /\ Len(lockWaiting) = 1
  /\ lockWaiting[1].timed

\* ------------------------------------------- ConcurrentMap claims, continued
\* an action for key k has been started and its reactions have not all run
activeOn(k) == \E r \in running : r.key = k

\* C31: a key is in #pending exactly while some action for the key is running
\* or queued; so its array is removed only when the last action for the key
\* has completed, never while an action for the key is still running.
C31_PendingBookkeeping ==
  \A k \in Keys : k \in DOMAIN pending <=> (activeOn(k) \/ queueOf(pending, k) # <<>>)

\* the value every key has when the counting application starts
InitialValue == 1

RECURSIVE sumOver(_)
\* the sum of the values stored for the keys ks
sumOver(ks) ==
  IF ks = {} THEN 0 ELSE LET k == CHOOSE x \in ks : TRUE IN current[k] + sumOver(ks \ {k})

\* every promise of the operations submitted so far is settled
quiescent == running = {} /\ DOMAIN pending = {}

\* C32: when the only operations are compute(k, (k, v) => v + 1), the function
\* of an action that is running was given the value that is stored for its
\* key now (the one written by the action before it), and once all n promises
\* have resolved the values stored exceed the initial ones by n in total: no
\* update is lost, whatever the interleaving of submissions and completions.
C32_AtomicReadModifyWrite ==
  /\ \A r \in running : r.phase = "run" => r.old = current[r.key]
  /\ quiescent => sumOver(Keys) = NumKeys * InitialValue + (nextOp - 1)

\* the promise of the map operation with number id is not settled: its
\* continuation (or a step of its clear()) is queued, or its user function
\* has not produced its outcome
unsettled(id) ==
  \/ \E k \in DOMAIN pending : \E i \in 1..Len(pending[k]) : pending[k][i].id = id
  \/ \E r \in running : r.id = id /\ r.phase = "run"

clearCalled ==
  /\ nextOp' = nextOp + 1
  /\ \/ \E t \in settled' : t.id = nextOp /\ t.op = "clear"
     \/ \E k \in DOMAIN pending' : \E i \in 1..Len(pending'[k]) :
          pending'[k][i].id = nextOp /\ pending'[k][i].op = "clearStep"

\* C36: in the step of the call, clear() deletes exactly the entries of the
\* keys that have no action running or queued, and appends one delete step to
\* the queue of every key that has an action running or queued, whether the
\* key has an entry or not; the entries of those keys are left as they are in
\* that step.  The promise of clear() resolves only when no operation that was
\* running or queued at the call is left, and, when nothing was submitted
\* after the call, with what the actions in flight at the call have stored
\* removed.
C36_ClearStep ==
  [][/\ clearCalled =>
          \A k \in Keys :
            IF idle(k)
              THEN /\ current'[k] = Undef
                   /\ queueOf(pending', k) = <<>>
              ELSE /\ current'[k] = current[k]
                   /\ queueOf(pending', k) =
                        Append(queueOf(pending, k), Cont(nextOp, "clearStep", k, 0, 0, ""))
     /\ \A t \in settled' : t.op = "clear" =>
          /\ \A k \in Keys : \A r \in running' : r.phase = "run" => r.id > t.id
          /\ nextOp' = t.id + 1 => \A k \in Keys : current'[k] = Undef
  ]_vars

\* C37: when an action on key k completes, its advance does not start the
\* next continuation of k as a nested synchronous call: whatever the number of
\* continuations queued for k, the advance that the finally() of an action
\* makes has no further advance nested in it: one call of
\* #triggerNextPending is on the stack, the advance itself.
C37_AdvanceDeferred ==
  \A r \in running :
    r.phase = "fin" =>
      triggerDepth([mapState EXCEPT !.running = @ \ {r}], r.key) <= 1

\* the same, with a bound that allows one nested advance
C37_AdvanceNestedOnce ==
  \A r \in running :
    r.phase = "fin" =>
      triggerDepth([mapState EXCEPT !.running = @ \ {r}], r.key) <= 2

\* ----------------------------------------------------- Semaphore claims
RECURSIVE sumNeeded(_)
\* permits needed by a sequence of acquirers
sumNeeded(q) == IF q = <<>> THEN 0 ELSE Head(q).permitsNeeded + sumNeeded(Tail(q))

\* the acquirer at place i of the queue leaves it in the step
leavesQueue(i) ==
  \A j \in 1..Len(semWaiting') : semWaiting'[j].id # semWaiting[i].id

leavers == SelectSeq(semWaiting, LAMBDA a : \A j \in 1..Len(semWaiting') : semWaiting'[j].id # a.id)

acquiredNow ==
  semLast'.op \in {"acquire", "tryAcquire", "tryAcquireTimed"} /\ semLast'.res = "acquired"

\* C4: the available permits are never negative, and an acquisition of p permits
\* that completes, at once or from the queue during a release, takes exactly p
\* permits in the step in which it completes.
C4_PermitAccounting ==
  /\ permits >= 0
  /\ [][/\ permits' >= 0
        /\ acquiredNow => permits' = permits - semLast'.p
        /\ (semLast'.op = "release" /\ semLast'.res = "ok") =>
             /\ permits' = permits + semLast'.p - sumNeeded(leavers)
             /\ semLast'.served = [i \in 1..Len(leavers) |-> leavers[i].id]
        /\ semLast'.op \notin {"release", "drainPermits"} /\ ~acquiredNow => permits' = permits
     ]_vars

\* a release served a queued acquirer and permits are left over
C4_Witness ==
  /\ semLast.op = "release"
  /\ Len(semLast.served) >= 1
  /\ permits > 0
  /\ semWaiting # <<>>

\* C5 as amended: of two queued acquirers a before b where a needs no more
\* permits than b, a is served no later than b; acquirers served by one release
\* are called back in queue order.
C5_FifoAmongFitting ==
  [][(semLast'.op = "release" /\ semLast'.res = "ok") =>
       /\ \A i, j \in 1..Len(semWaiting) :
            ( /\ i < j
              /\ leavesQueue(j)
              /\ semWaiting[i].permitsNeeded <= semWaiting[j].permitsNeeded )
            => leavesQueue(i)
       /\ semLast'.served = [i \in 1..Len(leavers) |-> leavers[i].id]
  ]_vars

\* C5 as stated: of two queued acquirers a before b (a untimed, so it does not
\* time out), a is served no later than b.
C5_FifoAsStated ==
  [][(semLast'.op = "release" /\ semLast'.res = "ok") =>
       \A i, j \in 1..Len(semWaiting) :
         (i < j /\ leavesQueue(j) /\ ~semWaiting[i].timed) => leavesQueue(i)
  ]_vars

\* a release served two queued acquirers, the one enqueued first needing no more
C5_Witness ==
  /\ semLast.op = "release"
  /\ Len(semLast.served) = 2
  /\ semLast.served[1] < semLast.served[2]
  /\ semWaiting # <<>>

\* the places of the old queue that a release of p permits serves: place i is
\* served exactly when its need fits what is left after the served places before it
servedPlaces(T, p) ==
  \A i \in 1..Len(semWaiting) :
    i \in T <=>
      semWaiting[i].permitsNeeded
        <= permits + p - sumNeeded(SelectSeq(SubSeq(semWaiting, 1, i - 1),
                                             LAMBDA a : \E j \in T : semWaiting[j].id = a.id))

\* C6: release(p) adds p and visits the waiters once in queue order; a visited
\* waiter whose need fits the permits available at that point is served, every
\* other waiter stays queued in the same relative order; a waiter that does not
\* fit does not block a later one that fits.
C6_DrainOnRelease ==
  [][(semLast'.op = "release" /\ semLast'.res = "ok") =>
       \E T \in SUBSET (1..Len(semWaiting)) :
         /\ servedPlaces(T, semLast'.p)
         /\ semWaiting' = SelectSeq(semWaiting, LAMBDA a : \A j \in T : semWaiting[j].id # a.id)
         /\ semLast'.served =
              LET q == SelectSeq(semWaiting, LAMBDA a : \E j \in T : semWaiting[j].id = a.id)
              IN  [i \in 1..Len(q) |-> q[i].id]
         /\ permits' = permits + semLast'.p
                         - sumNeeded(SelectSeq(semWaiting,
                                               LAMBDA a : \E j \in T : semWaiting[j].id = a.id))
         /\ semTimers' = semTimers \ {semWaiting[j].id : j \in T}
  ]_vars

\* Semaphore(0) with two waiting acquire(3): release(5) served the first and
\* left 2 permits and one waiter
C6_Witness ==
  /\ semLast = [op |-> "release", p |-> 5, res |-> "ok", served |-> <<1>>]
  /\ permits = 2
  /\ semWaiting = <<[id |-> 2, permitsNeeded |-> 3, timed |-> FALSE]>>

\* C20: tryAcquire({permits, timeout}) with enough permits takes them and
\* resolves true without queueing; without enough permits and a timeout of 0 or
\* less it resolves false at once, permits and queue unchanged; otherwise it
\* appends one waiter with a timer.  A timer that fires while its waiter is
\* queued resolves false, removes that waiter and leaves the permits alone.
C20_TryAcquireTimed ==
  [][/\ \A p \in {semLast'.p} \cap (0..MaxPermits), t \in SemTimeouts :
          (semLast'.op = "tryAcquireTimed" /\ TryAcquireTimed(p, t)) =>
          IF permits >= p
            THEN /\ semLast'.res = "acquired"
                 /\ permits' = permits - p
                 /\ UNCHANGED <<semWaiting, semTimers, semNext>>
            ELSE IF t <= 0
                   THEN /\ semLast'.res = "false"
                        /\ UNCHANGED <<permits, semWaiting, semTimers, semNext>>
                   ELSE /\ semLast'.res = "queued"
                        /\ permits' = permits
                        /\ semWaiting' =
                             Append(semWaiting,
                                    [id |-> semNext, permitsNeeded |-> p, timed |-> TRUE])
                        /\ semTimers' = semTimers \cup {semNext}
     /\ semLast'.op = "timeout" =>
          /\ semLast'.res = "false"
          /\ semLast'.p \in semTimers
          /\ \E i \in 1..Len(semWaiting) : semWaiting[i].id = semLast'.p /\ semWaiting[i].timed
          /\ semWaiting' = SelectSeq(semWaiting, LAMBDA a : a.id # semLast'.p)
          /\ Len(semWaiting') = Len(semWaiting) - 1
          /\ semTimers' = semTimers \ {semLast'.p}
          /\ permits' = permits
  ]_vars

\* the timer of the only waiter, a tryAcquire that needed more than the one
\* available permit, has fired
C20_Witness ==
  /\ semLast = [op |-> "timeout", p |-> 1, res |-> "false", served |-> <<>>]
  /\ permits = 1
  /\ semWaiting = <<>>
  /\ semTimers = {}
  /\ semNext = 2

\* C21: a queued timed tryAcquire is settled once: a scheduled timer belongs to
\* a queued acquirer and every queued acquirer has a pending promise; a release
\* serves only queued acquirers, subtracts the permits of each once, cancels its
\* timer and resolves it; a timer that fires takes no permits, removes its
\* acquirer and resolves false; an acquirer that is settled is in neither the
\* queue nor the timers, and its promise does not change again.
C21_TimedAcquireOnce ==
  /\ [](/\ \A id \in semTimers :
             \E i \in 1..Len(semWaiting) : semWaiting[i].id = id /\ semWaiting[i].timed
        /\ \A i \in 1..Len(semWaiting) :
             /\ semPromises[semWaiting[i].id] = "pending"
             /\ semWaiting[i].timed => semWaiting[i].id \in semTimers
             /\ \A j \in 1..Len(semWaiting) : semWaiting[j].id = semWaiting[i].id => j = i)
  /\ [][/\ \A i \in 1..Len(semLast'.served) :
             LET id == semLast'.served[i]
             IN  /\ semLast'.op = "release"
                 /\ \E j \in 1..Len(semWaiting) : semWaiting[j].id = id
                 /\ semPromises[id] = "pending"
                 /\ semPromises'[id] \in {"true", "resolved"}
                 /\ id \notin semTimers'
        /\ semLast'.op = "release" /\ semLast'.res = "ok" =>
             permits' = permits + semLast'.p - sumNeeded(leavers)
        /\ semLast'.op = "timeout" =>
             /\ semPromises[semLast'.p] = "pending"
             /\ semPromises' = [semPromises EXCEPT ![semLast'.p] = "false"]
             /\ permits' = permits
        /\ \A id \in DOMAIN semPromises' : semPromises'[id] # "pending" =>
             /\ id \notin semTimers'
             /\ \A j \in 1..Len(semWaiting') : semWaiting'[j].id # id
             /\ (id \in DOMAIN semPromises /\ semPromises[id] # "pending") =>
                  semPromises'[id] = semPromises[id]
     ]_vars

\* of two timed tryAcquire that waited, one was resolved false by its timer and
\* a later release has served the other
C21_Witness ==
  /\ semLast.op = "release"
  /\ \E a, b \in DOMAIN semPromises :
       /\ semPromises[a] = "false"
       /\ semPromises[b] = "true"
       /\ semLast.served = <<b>>
  /\ semTimers = {}

\* C22: drainPermits() returns the permits that were available before the call,
\* leaves zero permits, and completes no waiter (queue, timers and promises are
\* as before); no wake-up is lost by that, because in every reachable state
\* every queued acquirer needs strictly more permits than are available.
C22_DrainPermits ==
  /\ [](\A i \in 1..Len(semWaiting) : semWaiting[i].permitsNeeded > permits)
  /\ [][semLast'.op = "drainPermits" =>
          /\ semLast'.res = permits
          /\ permits' = 0
          /\ semLast'.served = <<>>
          /\ semWaiting' = semWaiting
          /\ semTimers' = semTimers
          /\ semPromises' = semPromises
     ]_vars

\* permits were drained while acquirers were queued and permits were available
C22_Witness ==
  /\ semLast.op = "drainPermits"
  /\ semLast.res > 0
  /\ permits = 0
  /\ Len(semWaiting) >= 2

\* a call of the semaphore that takes a number of permits
takesPermits == semLast'.op \in {"new", "acquire", "tryAcquire", "tryAcquireTimed", "release"}

\* the call of the step on the semaphore threw
semThrew == semLast'.op # "drainPermits" /\ semLast'.res = "error"

\* C30: the Semaphore constructor, acquire(p), tryAcquire(p),
\* tryAcquire({permits}) and release(p), and the CountDownLatch constructor,
\* throw in the call when the number given is negative, and only then; a call
\* that throws leaves the permits and the queue of the semaphore (its timers
\* too), or the latch, as they were.
C30_NegativeArguments ==
  [][/\ (takesPermits /\ semLast'.p < 0) <=> semThrew
     /\ semThrew =>
          /\ permits' = permits
          /\ semWaiting' = semWaiting
          /\ semTimers' = semTimers
          /\ semNext' = semNext
     /\ (semLast'.op = "new" /\ ~semThrew) =>
          /\ permits' = semLast'.p
          /\ semWaiting' = <<>>
     /\ latchLast'.op = "new" =>
          /\ latchLast'.arg[1] < 0 <=> latchLast'.res = "error"
          /\ latchLast'.res = "error" =>
               /\ latchCount' = latchCount
               /\ latchInitial' = latchInitial
               /\ latchWaiting' = latchWaiting
          /\ latchLast'.res = "ok" =>
               /\ latchCount' = latchLast'.arg[1]
               /\ latchInitial' = latchLast'.arg[1]
     ]_vars

\* release(-1) was rejected on a semaphore with permits available and
\* acquirers waiting, after new CountDownLatch(-1) was rejected
C30_Witness ==
  /\ semLast.op = "release"
  /\ semLast.p = -1
  /\ semLast.res = "error"
  /\ permits > 0
  /\ semWaiting # <<>>
  /\ latchLast.res = "error"

\* ------------------------------------------------------------ specifications
\* new CountDownLatch(latchInitial), before any call
latchIdle ==
  /\ latchCount = latchInitial
  /\ latchWaiting = <<>>
  /\ latchTimers = {}
  /\ latchPromises = <<>>
  /\ latchNext = 1
  /\ latchLast = [op |-> "new", arg |-> <<latchInitial>>, res |-> "ok", called |-> <<>>]

\* new ConcurrentMap()
mapIdle ==
  /\ pending = <<>>
  /\ running = {}
  /\ nextOp = 1
  /\ settled = {}
  /\ finished = <<>>
  /\ observed = <<>>

\* new ReadWriteLock(options), before any call
lockIdle ==
  /\ counts = [read |-> 0, write |-> 0]
  /\ lockWaiting = <<>>
  /\ handles = <<>>
  /\ lockTimers = {}
  /\ lockLast = [op |-> "new", id |-> 0, arg |-> None, res |-> "ok"]

\* new Semaphore(n), before any call
semIdle ==
  /\ semWaiting = <<>>
  /\ semTimers = {}
  /\ semNext = 1
  /\ semPromises = <<>>
  /\ semLast = [op |-> "new", p |-> permits, res |-> "ok", served |-> <<>>]

InitMap ==
  /\ current \in [Keys -> Values \cup {Undef}]
  /\ mapIdle
  /\ opLimit = MaxOps
  /\ fair = TRUE
  /\ idLimit = MaxLocks
  /\ lockIdle
  /\ permits = 0
  /\ semFollowed = FALSE
  /\ semLimit = MaxAcquirers
  /\ semIdle
  /\ latchInitial = 0
  /\ latchIdle

NextMap ==
  \/ \E k \in Keys, v \in Values : Set(k, v)
  \/ \E k \in Keys : Delete(k)
  \/ \E k \in Keys, v \in Values : DeleteValue(k, v)
  \/ \E k \in Keys : GetLatest(k)
  \/ \E k \in Keys, v \in Values : SetIfAbsent(k, v)
  \/ \E k \in Keys, v \in Values : SetIfPresent(k, v)
  \/ \E k \in Keys, v \in Values, w \in Values : Replace(k, v, w)
  \/ \E k \in Keys, fn \in FnKinds : Compute(k, fn)
  \/ \E k \in Keys, fn \in FnKinds : ComputeIfAbsent(k, fn)
  \/ \E k \in Keys, fn \in FnKinds : ComputeIfPresent(k, fn)
  \/ \E k \in Keys, v \in Values, fn \in FnKinds : Merge(k, v, fn)
  \/ Clear
  \/ \E r \in running : Complete(r)
  \/ \E r \in running : Finally(r)

SpecMap == InitMap /\ [][NextMap]_vars

\* an application that only counts: every operation is
\* compute(k, (k, v) => v + 1) on a map that has an entry for every key
InitMapCount ==
  /\ current = [k \in Keys |-> InitialValue]
  /\ mapIdle
  /\ opLimit = MaxIncrements
  /\ fair = TRUE
  /\ idLimit = MaxLocks
  /\ lockIdle
  /\ permits = 0
  /\ semFollowed = FALSE
  /\ semLimit = MaxAcquirers
  /\ semIdle
  /\ latchInitial = 0
  /\ latchIdle

NextMapCount ==
  \/ \E k \in Keys : Compute(k, "val")
  \/ \E r \in running : Complete(r)
  \/ \E r \in running : Finally(r)

SpecMapCount == InitMapCount /\ [][NextMapCount]_vars

\* new ConcurrentMap(); every user function eventually produces its outcome
\* and the runtime eventually runs every reaction that is due
InitMapLive ==
  /\ current = [k \in Keys |-> Undef]
  /\ mapIdle
  /\ opLimit = MaxOps
  /\ fair = TRUE
  /\ idLimit = MaxLocks
  /\ lockIdle
  /\ permits = 0
  /\ semFollowed = FALSE
  /\ semLimit = MaxAcquirers
  /\ semIdle
  /\ latchInitial = 0
  /\ latchIdle

\* the operations the claim names: the compute family with its user functions,
\* getLatest and clear
NextMapLive ==
  \/ \E k \in Keys, fn \in FnKinds : Compute(k, fn)
  \/ \E k \in Keys, v \in Values, fn \in FnKinds : Merge(k, v, fn)
  \/ \E k \in Keys : GetLatest(k)
  \/ Clear
  \/ \E r \in running : Complete(r)
  \/ \E r \in running : Finally(r)

SpecMapLive ==
  /\ InitMapLive
  /\ [][NextMapLive]_vars
  /\ WF_vars(\E r \in running : Complete(r))
  /\ WF_vars(\E r \in running : Finally(r))

InitMapObs ==
  /\ current \in [Keys -> Values \cup {Undef}]
  /\ mapIdle
  /\ opLimit = MaxObsOps
  /\ fair = TRUE
  /\ idLimit = MaxLocks
  /\ lockIdle
  /\ permits = 0
  /\ semFollowed = FALSE
  /\ semLimit = MaxAcquirers
  /\ semIdle
  /\ latchInitial = 0
  /\ latchIdle

NextMapObs ==
  \/ NextMap
  \/ \E o \in Observers, k \in Keys \cup {0} : Observe(o, k)

SpecMapObs == InitMapObs /\ [][NextMapObs]_vars

InitLock ==
  /\ fair \in BOOLEAN
  /\ idLimit = MaxLocks
  /\ lockIdle
  /\ current = [k \in Keys |-> Undef]
  /\ mapIdle
  /\ opLimit = MaxOps
  /\ permits = 0
  /\ semFollowed = FALSE
  /\ semLimit = MaxAcquirers
  /\ semIdle
  /\ latchInitial = 0
  /\ latchIdle

NextLock ==
  \/ \E t \in Timeouts : AcquireRead(t)
  \/ \E t \in Timeouts : AcquireWrite(t)
  \/ \E h \in Ids : Release(h)
  \/ \E h \in Ids, t \in Timeouts : Upgrade(h, t)
  \/ \E h \in Ids : Downgrade(h)
  \/ \E h \in Ids, op \in {"release", "upgradeToWriteLock", "downgradeToReadLock"} : NotHeld(h, op)
  \/ \E id \in Ids : LockTimeout(id)
  \/ \E h \in Ids : Forget(h)

SpecLock == InitLock /\ [][NextLock]_vars

InitLockFair ==
  /\ fair = TRUE
  /\ idLimit = MaxFairLocks
  /\ lockIdle
  /\ current = [k \in Keys |-> Undef]
  /\ mapIdle
  /\ opLimit = MaxOps
  /\ permits = 0
  /\ semFollowed = FALSE
  /\ semLimit = MaxAcquirers
  /\ semIdle
  /\ latchInitial = 0
  /\ latchIdle

\* every lock that is granted is eventually released
SpecLockFair ==
  InitLockFair /\ [][NextLock]_vars /\ \A h \in Ids : WF_vars(Release(h))

InitSem ==
  /\ permits \in 0..MaxPermits
  /\ semFollowed = FALSE
  /\ semLimit = MaxAcquirers
  /\ semIdle
  /\ latchInitial = 0
  /\ latchIdle
  /\ current = [k \in Keys |-> Undef]
  /\ mapIdle
  /\ opLimit = MaxOps
  /\ fair = TRUE
  /\ idLimit = MaxLocks
  /\ lockIdle

NextSem ==
  \/ \E p \in PermitArgs : Acquire(p)
  \/ \E p \in PermitArgs : TryAcquire(p)
  \/ \E p \in PermitArgs, t \in SemTimeouts : TryAcquireTimed(p, t)
  \/ \E p \in ReleaseArgs : ReleaseSem(p)
  \/ DrainPermits
  \/ \E id \in 1..MaxAcquirers : SemTimeout(id)

SpecSem == InitSem /\ [][NextSem]_vars

\* the application keeps the promises of the acquirers that wait
InitSemFollowed ==
  /\ permits \in 0..MaxPermits
  /\ semFollowed = TRUE
  /\ semLimit = MaxFollowed
  /\ semIdle
  /\ latchInitial = 0
  /\ latchIdle
  /\ current = [k \in Keys |-> Undef]
  /\ mapIdle
  /\ opLimit = MaxOps
  /\ fair = TRUE
  /\ idLimit = MaxLocks
  /\ lockIdle

SpecSemFollowed == InitSemFollowed /\ [][NextSem]_vars

\* semaphores and latches are constructed during the run
InitNew ==
  /\ permits \in 0..MaxPermits
  /\ semFollowed = FALSE
  /\ semLimit = MaxFollowed
  /\ semIdle
  /\ latchInitial = 0
  /\ latchIdle
  /\ current = [k \in Keys |-> Undef]
  /\ mapIdle
  /\ opLimit = MaxOps
  /\ fair = TRUE
  /\ idLimit = MaxLocks
  /\ lockIdle

NextNew ==
  \/ NextSem
  \/ \E n \in PermitArgs : NewSemaphore(n)
  \/ \E c \in CountArgs : NewCountDownLatch(c)

SpecNew == InitNew /\ [][NextNew]_vars

InitLatch ==
  /\ latchInitial \in 0..MaxCount
  /\ latchIdle
  /\ current = [k \in Keys |-> Undef]
  /\ mapIdle
  /\ opLimit = MaxOps
  /\ fair = TRUE
  /\ idLimit = MaxLocks
  /\ lockIdle
  /\ permits = 0
  /\ semFollowed = FALSE
  /\ semLimit = MaxAcquirers
  /\ semIdle

NextLatch ==
  \/ \E t \in LatchTimeouts : Await(t)
  \/ CountDown
  \/ \E id \in 1..MaxWaiters : LatchTimeout(id)

SpecLatch == InitLatch /\ [][NextLatch]_vars

====
